---- MODULE Spec2Model ----
(***************************************************************************)
(* Yield-formula recognition and evaluation of crop_plan_2025, and the     *)
(* dependency tracers of its workbook:                                     *)
(*   scripts/convert-yield-formulas.py  (parse_and_convert,                *)
(*                                 calculate_ppb, evaluate_formula, main)  *)
(*   scripts/migrate-yield-formulas.py  (parse_uph_formula, calculate_ppb, *)
(*                                       calculate_yield, main)            *)
(*                                                                         *)
(* Spec runs one formula through both parsers and both evaluators,         *)
(* SpecPpb applies calculate_ppb, SpecMain runs the row loop and the       *)
(* report of one of the two main functions.                                *)
(*   scripts/trace-formula-dag.py   (trace_dependencies)                   *)
(*   scripts/trace-bed-plan-dag.py  (parse_structured_refs, build_dag,     *)
(*                                   get_level)                            *)
(* SpecTrace runs one call of trace_dependencies (SpecTraceLive with the   *)
(* interpreter going on), SpecLevel builds the dag of the Bed Plan sheet   *)
(* and runs get_level for each of its columns.                             *)
(*                                                                         *)
(* Strings are sequences of atoms.  An atom is one character (digits, the  *)
(* operators, brackets, the line break) or one word of the spreadsheet     *)
(* vocabulary ("Plantings Per Bed", "Harvests", ...).  StandardBedLength   *)
(* is the two atoms "Standard","BedLength", so that BedLength stays a      *)
(* substring of it.  Numbers are exact rationals [n, d] with d > 0; the    *)
(* rounding of binary floating point is not modelled.  d = 0 encodes the   *)
(* non-numbers: None (n = 0), a raised exception (n = 1) and a cell that   *)
(* holds text such as "#DIV/0!" (n = 2).                                   *)
(***************************************************************************)
EXTENDS Integers, Sequences, FiniteSets, TLC

\* ------------------------------------------------------------------------
\* Numbers
\* ------------------------------------------------------------------------
Abs(x) == IF x < 0 THEN -x ELSE x

RECURSIVE GCD(_, _)
GCD(a, b) == IF b = 0 THEN a ELSE GCD(b, a % b)

\* n/d in lowest terms with a positive denominator (d # 0)
Q(n, d) ==
    LET g == GCD(Abs(n), Abs(d))
        s == IF d < 0 THEN -1 ELSE 1
    IN  [n |-> (s * n) \div g, d |-> (s * d) \div g]

I(k) == [n |-> k, d |-> 1]

None == [n |-> 0, d |-> 0]
Raised == [n |-> 1, d |-> 0]

IsNum(q) == q.d > 0

\* a cell whose cached value is text: openpyxl gives an error value such as
\* "#DIV/0!" as a str
Text == [n |-> 2, d |-> 0]

\* Python truthiness of a cell value: None and 0 are falsy, text is truthy
Truthy(q) == q = Text \/ (IsNum(q) /\ q.n # 0)

RAdd(a, b) == IF ~IsNum(a) \/ ~IsNum(b) THEN Raised
              ELSE Q(a.n * b.d + b.n * a.d, a.d * b.d)
RSub(a, b) == IF ~IsNum(a) \/ ~IsNum(b) THEN Raised
              ELSE Q(a.n * b.d - b.n * a.d, a.d * b.d)
\* common factors are cancelled before the products are formed
RMul(a, b) == IF ~IsNum(a) \/ ~IsNum(b) THEN Raised
              ELSE LET g == GCD(Abs(a.n), b.d)
                       h == GCD(Abs(b.n), a.d)
                   IN  Q((a.n \div g) * (b.n \div h), (a.d \div h) * (b.d \div g))
\* float division: ZeroDivisionError on a zero divisor
RDiv(a, b) == IF ~IsNum(a) \/ ~IsNum(b) \/ b.n = 0 THEN Raised
              ELSE RMul(a, Q(b.d, b.n))
RLeq0(a) == a.n <= 0
\* abs() and > on floats
RAbs(a) == IF ~IsNum(a) THEN Raised ELSE Q(Abs(a.n), a.d)
RGt(a, b) == a.n * b.d > b.n * a.d

\* format spec ".6f": the nearest multiple of 10^-6 (q >= 0)
Micro == 1000000
Round6(q) == IF ~IsNum(q) THEN q
             ELSE Q((2 * q.n * Micro + q.d) \div (2 * q.d), Micro)

\* ------------------------------------------------------------------------
\* Strings (sequences of atoms)
\* ------------------------------------------------------------------------
Drop(s, k) == SubSeq(s, k + 1, Len(s))
Take(s, k) == SubSeq(s, 1, k)

IsPrefix(p, s) == Len(p) <= Len(s) /\ Take(s, Len(p)) = p

\* str.startswith
startswith(s, p) == IsPrefix(p, s)

\* str.replace(old, new): leftmost, non-overlapping occurrences
RECURSIVE replace(_, _, _)
replace(s, old, new) ==
    IF s = <<>> THEN <<>>
    ELSE IF IsPrefix(old, s) THEN new \o replace(Drop(s, Len(old)), old, new)
    ELSE <<Head(s)>> \o replace(Tail(s), old, new)

Digits == {"0", "1", "2", "3", "4", "5", "6", "7", "8", "9"}

DigitVal(c) ==
    CASE c = "0" -> 0 [] c = "1" -> 1 [] c = "2" -> 2 [] c = "3" -> 3
      [] c = "4" -> 4 [] c = "5" -> 5 [] c = "6" -> 6 [] c = "7" -> 7
      [] c = "8" -> 8 [] c = "9" -> 9

\* length of the longest prefix of s made of digits
RECURSIVE DigitRun(_)
DigitRun(s) == IF s = <<>> \/ Head(s) \notin Digits THEN 0
               ELSE 1 + DigitRun(Tail(s))

\* length of the longest prefix of s matched by  \d+\.?\d*
NumLen(s) ==
    LET a == DigitRun(s)
    IN  IF a = 0 THEN 0
        ELSE IF Len(s) > a /\ s[a + 1] = "."
             THEN a + 1 + DigitRun(Drop(s, a + 1))
             ELSE a

RECURSIVE IntVal(_)
IntVal(ds) == IF ds = <<>> THEN 0
              ELSE 10 * IntVal(Take(ds, Len(ds) - 1)) + DigitVal(ds[Len(ds)])

RECURSIVE Pow10(_)
Pow10(k) == IF k = 0 THEN 1 ELSE 10 * Pow10(k - 1)

\* float(text) for a text matched by \d+\.?\d*
float(ds) ==
    LET a == DigitRun(ds)
        frac == IF Len(ds) > a THEN Drop(ds, a + 1) ELSE <<>>
    IN  Q(IntVal(Take(ds, a)) * Pow10(Len(frac)) + IntVal(frac), Pow10(Len(frac)))

\* ------------------------------------------------------------------------
\* re.match against an anchored template.  A template is a sequence of
\* atoms; the atom "#" stands for the capturing group (\d+\.?\d*).  No
\* template puts a digit or a "." right after a group, so the greedy match
\* of the group is the only one.  "$" matches at the end of the string and
\* also just before a line break that ends the string.
\* ------------------------------------------------------------------------
NoMatch == [ok |-> FALSE, groups |-> <<>>]

RECURSIVE re_match(_, _)
re_match(t, s) ==
    IF t = <<>>
    THEN [ok |-> (s = <<>> \/ s = <<"\n">>), groups |-> <<>>]
    ELSE IF Head(t) = "#"
    THEN LET k == NumLen(s)
         IN  IF k = 0 THEN NoMatch
             ELSE LET r == re_match(Tail(t), Drop(s, k))
                  IN  [ok |-> r.ok,
                       groups |-> IF r.ok THEN <<float(Take(s, k))>> \o r.groups
                                  ELSE <<>>]
    ELSE IF s # <<>> /\ Head(s) = Head(t) THEN re_match(Tail(t), Tail(s))
    ELSE NoMatch

\* ------------------------------------------------------------------------
\* Rate construction: the arithmetic each template applies to its groups
\* ------------------------------------------------------------------------
One == I(1)
Hundred == I(100)
BakedSafetyFactor == Q(11, 10)

Rate(rule, g) ==
    CASE rule = "1"           -> One
      [] rule = "g1"          -> g[1]
      [] rule = "g2"          -> g[2]
      [] rule = "1/g1"        -> RDiv(One, g[1])
      [] rule = "g1/g2"       -> RDiv(g[1], g[2])
      [] rule = "g1/g2*g3"    -> RMul(RDiv(g[1], g[2]), g[3])
      [] rule = "1/(g1*g2)"   -> RDiv(One, RMul(g[1], g[2]))
      [] rule = "1/(g1*g2*g3)" -> RDiv(One, RMul(RMul(g[1], g[2]), g[3]))
      [] rule = "g2/g1"       -> RDiv(g[2], g[1])
      [] rule = "g1*g2"       -> RMul(g[1], g[2])
      [] rule = "g1*g2*g3"    -> RMul(RMul(g[1], g[2]), g[3])
      [] rule = "g1*g2/g3"    -> RDiv(RMul(g[1], g[2]), g[3])
      [] rule = "g1/g2*g3*g4" -> RMul(RMul(RDiv(g[1], g[2]), g[3]), g[4])
      [] rule = "g1*g3/g2"    -> RDiv(RMul(g[1], g[3]), g[2])
      [] rule = "100"         -> Hundred
      [] rule = "g1*100"      -> RMul(g[1], Hundred)
      [] rule = "g1*g2*100"   -> RMul(RMul(g[1], g[2]), Hundred)
      [] rule = "1/g1/1.1:.6f" -> Round6(RDiv(RDiv(One, g[1]), BakedSafetyFactor))

\* ------------------------------------------------------------------------
\* migrate-yield-formulas.py: parse_uph_formula
\* ------------------------------------------------------------------------
PPB == "Plantings Per Bed"
H == "Harvests"
BL == "BedLength"
DBH == "Days Between Harvest"
SPB == "Seeds Per Bed"
SF == "Safety Factor"
SBL == <<"Standard", "BedLength">>
TableRef == <<"Crops", "[", "[", "#This Row", "]", ",">>

MT(re, basis, rule, hm, tag) ==
    [re |-> re, basis |-> basis, rule |-> rule, hm |-> hm, tag |-> tag]

\* the cascade of re.match calls, in source order
MigTemplates == <<
    MT(<<PPB, "*", "#", "/", H>>,                 "per-plant", "g1", FALSE, "PPB_MULT_DIV_H"),
    MT(<<PPB, "/", "#", "/", H>>,                 "per-plant", "1/g1", FALSE, "PPB_DIV_DIV_H"),
    MT(<<PPB, "/", H>>,                           "per-plant", "1", FALSE, "PPB_DIV_DIV_H"),
    MT(<<PPB, "*", "#">>,                         "per-plant", "g1", TRUE, "PPB_MULT"),
    MT(<<PPB, "/", "#">>,                         "per-plant", "1/g1", TRUE, "PPB_DIV"),
    MT(<<PPB>>,                                   "per-plant", "1", TRUE, "PPB_DIRECT"),
    MT(<<PPB, "*", "(", "#", "/", "#", ")">>,     "per-plant", "g1/g2", TRUE, "PPB_MULT"),
    MT(<<PPB, "*", "(", "#", "/", "#", ")", "*", "#">>, "per-plant", "g1/g2*g3", TRUE, "PPB_MULT"),
    MT(<<PPB, "*", "#", "/", "#">>,               "per-plant", "g1/g2", TRUE, "PPB_MULT"),
    MT(<<PPB, "/", "#", "/", "#", "/", H>>,       "per-plant", "1/(g1*g2)", FALSE, "PPB_DIV_DIV_H"),
    MT(<<PPB, "/", "#", "/", "#", "/", "#", "/", H>>, "per-plant", "1/(g1*g2*g3)", FALSE, "PPB_DIV_DIV_H"),
    MT(<<PPB, "/", "#", "/", "#", "/", "#">>,     "per-plant", "1/(g1*g2*g3)", TRUE, "PPB_DIV"),
    MT(<<PPB, "*", "#", "/", "#", "/", H>>,       "per-plant", "g1/g2", FALSE, "PPB_MULT_DIV_H"),
    MT(<<PPB, "/", "#", "*", "#", "/", H>>,       "per-plant", "g2/g1", FALSE, "PPB_MULT_DIV_H"),
    MT(<<PPB, "*", "#", "*", "#", "/", H>>,       "per-plant", "g1*g2", FALSE, "PPB_MULT_DIV_H"),
    MT(<<PPB, "*", "#", "*", "#", "*", "#", "/", H>>, "per-plant", "g1*g2*g3", FALSE, "PPB_MULT_DIV_H"),
    MT(<<PPB, "*", "#", "*", "#", "/", "#", "/", H>>, "per-plant", "g1*g2/g3", FALSE, "PPB_MULT_DIV_H"),
    MT(<<PPB, "/", H, "*", "#">>,                 "per-plant", "g1", FALSE, "PPB_MULT_DIV_H"),
    MT(<<"1", "/", H, "*", PPB>>,                 "per-plant", "1", FALSE, "PPB_DIV_DIV_H"),
    MT(<<PPB, "/", "#", "*", "#">>,               "per-plant", "g2/g1", TRUE, "PPB_MULT"),
    MT(<<"#", "*", BL, "/">> \o SBL \o <<"/", H>>, "per-100ft", "g1", FALSE, "AREA_DIV_H"),
    MT(<<"#", "*", BL, "/">> \o SBL,              "per-100ft", "g1", TRUE, "AREA"),
    MT(<<BL, "/", H>>,                            "per-100ft", "100", FALSE, "BEDLENGTH_DIV_H"),
    MT(<<BL, "*", "#", "/", H>>,                  "per-100ft", "g1*100", FALSE, "BEDLENGTH_DIV_H"),
    MT(<<"#", "*", "#", "*", BL, "/", H>>,        "per-100ft", "g1*g2*100", FALSE, "BEDLENGTH_DIV_H"),
    MT(<<"#", "*", BL, "/">> \o SBL \o <<"/", "#", "*", "#", "*", "#", "/", H>>,
                                                  "per-100ft", "g1/g2*g3*g4", FALSE, "AREA_DIV_H"),
    MT(<<PPB, "*", "#", "*", DBH, "/", "7">>,     "per-plant", "g1", TRUE, "PPB_WEEKLY_RATE"),
    MT(<<PPB, "*", DBH, "/", "7">>,               "per-plant", "1", TRUE, "PPB_WEEKLY_RATE"),
    MT(<<PPB, "*", "#", "*", "(", DBH, "/", "7", ")">>, "per-plant", "g1", TRUE, "PPB_WEEKLY_RATE"),
    MT(<<PPB, "*", "#", "*", DBH>>,               "per-plant", "g1", TRUE, "PPB_DBH_DIRECT"),
    MT(<<"#", "*", BL, "/">> \o SBL \o <<"*", "(", H, "*", DBH, ")", "/", "#", "/", H>>,
                                                  "per-100ft", "g1/g2", TRUE, "AREA_DBH_SCALED"),
    MT(<<"#", "*", BL, "/">> \o SBL \o <<"*", "(", H, "*", DBH, ")", "/", "#", "/", H, "*", "#">>,
                                                  "per-100ft", "g1*g3/g2", TRUE, "AREA_DBH_SCALED"),
    MT(<<"1", "/", "#", "*", SPB, "/", SF>>,      "per-plant", "1/g1", TRUE, "SEEDS_BASED"),
    MT(<<"(", "#", "+", "(", H, "-", "1", ")", "*", "#", "*", PPB, ")", "/", H>>,
                                                  "per-plant", "g2", FALSE, "LETTUCE_COMPLEX")
>>

\* class YieldModel; pattern "None" is the None result, pattern
\* "ZeroDivisionError" the exception raised while a rate is computed
YieldModel(basis, rate, hm, pattern, extra) ==
    [basis |-> basis, rate |-> rate, harvest_multiplies |-> hm,
     pattern |-> pattern, extra |-> extra]

NoModel == YieldModel("", None, FALSE, "None", None)
ModelRaised == YieldModel("", Raised, FALSE, "ZeroDivisionError", None)

\* lines 33-34 of parse_uph_formula
mig_normalize(formula) ==
    LET f1 == replace(formula, TableRef, <<>>)
        f2 == replace(f1, <<"]", "]">>, <<"]">>)
        f3 == replace(f2, <<"[">>, <<>>)
        f4 == replace(f3, <<"]">>, <<>>)
    IN  replace(f4, <<"=">>, <<>>)

\* the cascade with harvest_multiplies=True in the return statement of the
\* Plantings Per Bed/Harvests*a template
MigTryFlagSlip(i, f) ==
    LET t == MigTemplates[i]
        m == re_match(t.re, f)
        hm == IF t.re = <<PPB, "/", H, "*", "#">> THEN TRUE ELSE t.hm
    IN  IF ~m.ok THEN NoModel
        ELSE LET rate == Rate(t.rule, m.groups)
             IN  IF ~IsNum(rate) THEN ModelRaised
                 ELSE YieldModel(t.basis, rate, hm, t.tag,
                                 IF t.tag = "LETTUCE_COMPLEX" THEN m.groups[1] ELSE None)

\* one  m = re.match(...); if m: return YieldModel(...)  of the cascade
MigTry(i, f) ==
    LET t == MigTemplates[i]
        m == re_match(t.re, f)
    IN  IF ~m.ok THEN NoModel
        ELSE LET rate == Rate(t.rule, m.groups)
             IN  IF ~IsNum(rate) THEN ModelRaised
                 ELSE YieldModel(t.basis, rate, t.hm, t.tag,
                                 IF t.tag = "LETTUCE_COMPLEX" THEN m.groups[1] ELSE None)

\* ------------------------------------------------------------------------
\* convert-yield-formulas.py: parse_and_convert
\* ------------------------------------------------------------------------
\* a token of a yieldFormula: a name or operator, or a number literal
Sym(s) == [k |-> "sym", s |-> s, n |-> 0, d |-> 1]
Num(q) == [k |-> "num", s |-> "", n |-> q.n, d |-> q.d]

ppb_ == "plantingsPerBed"
h_ == "harvests"
bf_ == "bedFeet"
dbh_ == "daysBetweenHarvest"
seeds_ == "seeds"
sf_ == "safetyFactor"
c100 == <<"1", "0", "0">>

\* the normalisation with BedLength substituted before StandardBedLength
conv_normalize_short_first(excel_formula) ==
    LET f1 == replace(excel_formula, TableRef, <<>>)
        f2 == replace(f1, <<"]", "]">>, <<"]">>)
        f3 == replace(f2, <<"[">>, <<>>)
        f4 == replace(f3, <<"]">>, <<>>)
        f5 == replace(f4, <<"=">>, <<>>)
        f6 == replace(f5, <<PPB>>, <<ppb_>>)
        f7 == replace(f6, <<DBH>>, <<dbh_>>)
        f8 == replace(f7, <<BL>>, <<bf_>>)
        f9 == replace(f8, SBL, c100)
        f10 == replace(f9, <<H>>, <<h_>>)
        f11 == replace(f10, <<SPB>>, <<seeds_>>)
    IN  replace(f11, <<SF>>, <<sf_>>)

\* the normalisation with every replace limited to the first occurrence
conv_normalize_first_occurrence(excel_formula) ==
    LET first(s, old, new) ==
            LET hits == {i \in 1..(Len(s) - Len(old) + 1) :
                            SubSeq(s, i, i + Len(old) - 1) = old}
            IN  IF hits = {} THEN s
                ELSE LET i == CHOOSE x \in hits : \A y \in hits : x <= y
                     IN  SubSeq(s, 1, i - 1) \o new \o SubSeq(s, i + Len(old), Len(s))
        f1 == first(excel_formula, TableRef, <<>>)
        f2 == first(f1, <<"]", "]">>, <<"]">>)
        f3 == first(f2, <<"[">>, <<>>)
        f4 == first(f3, <<"]">>, <<>>)
        f5 == first(f4, <<"=">>, <<>>)
        f6 == first(f5, <<PPB>>, <<ppb_>>)
        f7 == first(f6, <<DBH>>, <<dbh_>>)
        f8 == first(f7, SBL, c100)
        f9 == first(f8, <<BL>>, <<bf_>>)
        f10 == first(f9, <<H>>, <<h_>>)
        f11 == first(f10, <<SPB>>, <<seeds_>>)
    IN  first(f11, <<SF>>, <<sf_>>)

\* lines 50-63 of parse_and_convert
conv_normalize(excel_formula) ==
    LET f1 == replace(excel_formula, TableRef, <<>>)
        f2 == replace(f1, <<"]", "]">>, <<"]">>)
        f3 == replace(f2, <<"[">>, <<>>)
        f4 == replace(f3, <<"]">>, <<>>)
        f5 == replace(f4, <<"=">>, <<>>)
        f6 == replace(f5, <<PPB>>, <<ppb_>>)
        f7 == replace(f6, <<DBH>>, <<dbh_>>)
        f8 == replace(f7, SBL, c100)
        f9 == replace(f8, <<BL>>, <<bf_>>)
        f10 == replace(f9, <<H>>, <<h_>>)
        f11 == replace(f10, <<SPB>>, <<seeds_>>)
    IN  replace(f11, <<SF>>, <<sf_>>)

\* the f-string of each return statement; {rate} and {fixed} are float
\* literals that eval reads back as the same float
Emit(form, rate, fixed) ==
    LET P == Sym(ppb_)  HH == Sym(h_)  B == Sym(bf_)  D == Sym(dbh_)
        x == Sym("*")   R == Num(rate)
        B100 == <<Sym("("), B, Sym("/"), Num(Hundred), Sym(")")>>
        D7 == <<Sym("("), D, Sym("/"), Num(I(7)), Sym(")")>>
    IN  CASE form = "ppb*r"       -> <<P, x, R>>
          [] form = "ppb"         -> <<P>>
          [] form = "ppb*r*h"     -> <<P, x, R, x, HH>>
          [] form = "ppb*h"       -> <<P, x, HH>>
          [] form = "(bf/100)*r"  -> B100 \o <<x, R>>
          [] form = "(bf/100)*r*h" -> B100 \o <<x, R, x, HH>>
          [] form = "bf"          -> <<B>>
          [] form = "bf*r"        -> <<B, x, R>>
          [] form = "ppb*r*(dbh/7)*h" -> <<P, x, R, x>> \o D7 \o <<x, HH>>
          [] form = "ppb*(dbh/7)*h" -> <<P, x>> \o D7 \o <<x, HH>>
          [] form = "ppb*r*dbh*h" -> <<P, x, R, x, D, x, HH>>
          [] form = "(bf/100)*r*dbh*h" -> B100 \o <<x, R, x, D, x, HH>>
          [] form = "seeds*r*h"   -> <<Sym(seeds_), x, R, x, HH>>
          [] form = "fixed+(h-1)*r*ppb" ->
                <<Num(fixed), Sym("+"), Sym("("), HH, Sym("-"), Num(One), Sym(")"),
                  x, R, x, P>>

CT(re, rule, form, tag, is_total) ==
    [re |-> re, rule |-> rule, form |-> form, tag |-> tag, is_total |-> is_total]

\* lines 71-86: plantingsPerBed with a rate and /harvests
ConvPpbDivHarvests == <<
    CT(<<ppb_, "*", "#", "/", h_>>,               "g1", "ppb*r", "PPB_MULT_DIV_H", TRUE),
    CT(<<ppb_, "/", "#", "/", h_>>,               "1/g1", "ppb*r", "PPB_DIV_DIV_H", TRUE),
    CT(<<ppb_, "/", h_>>,                         "1", "ppb", "PPB_DIV_H", TRUE)
>>

\* lines 88-103: the same three shapes without /harvests
ConvPpbNoHarvests == <<
    CT(<<ppb_, "*", "#">>,                        "g1", "ppb*r*h", "PPB_MULT", FALSE),
    CT(<<ppb_, "/", "#">>,                        "1/g1", "ppb*r*h", "PPB_DIV", FALSE),
    CT(<<ppb_>>,                                  "1", "ppb*h", "PPB_DIRECT", FALSE)
>>

\* lines 105-186: plantingsPerBed with several literals (the test
\* m.group(2) != 'harvests' of line 119 is true of every text the group matches)
ConvPpbCompound == <<
    CT(<<ppb_, "*", "(", "#", "/", "#", ")">>,    "g1/g2", "ppb*r*h", "PPB_MULT", FALSE),
    CT(<<ppb_, "*", "(", "#", "/", "#", ")", "*", "#">>, "g1/g2*g3", "ppb*r*h", "PPB_MULT", FALSE),
    CT(<<ppb_, "*", "#", "/", "#">>,              "g1/g2", "ppb*r*h", "PPB_MULT", FALSE),
    CT(<<ppb_, "/", "#", "/", "#", "/", h_>>,     "1/(g1*g2)", "ppb*r", "PPB_DIV_DIV_H", TRUE),
    CT(<<ppb_, "/", "#", "/", "#", "/", "#", "/", h_>>, "1/(g1*g2*g3)", "ppb*r", "PPB_DIV_DIV_H", TRUE),
    CT(<<ppb_, "/", "#", "/", "#", "/", "#">>,    "1/(g1*g2*g3)", "ppb*r*h", "PPB_DIV", FALSE),
    CT(<<ppb_, "*", "#", "/", "#", "/", h_>>,     "g1/g2", "ppb*r", "PPB_MULT_DIV_H", TRUE),
    CT(<<ppb_, "/", "#", "*", "#", "/", h_>>,     "g2/g1", "ppb*r", "PPB_MULT_DIV_H", TRUE),
    CT(<<ppb_, "*", "#", "*", "#", "/", h_>>,     "g1*g2", "ppb*r", "PPB_MULT_DIV_H", TRUE),
    CT(<<ppb_, "*", "#", "*", "#", "*", "#", "/", h_>>, "g1*g2*g3", "ppb*r", "PPB_MULT_DIV_H", TRUE),
    CT(<<ppb_, "*", "#", "*", "#", "/", "#", "/", h_>>, "g1*g2/g3", "ppb*r", "PPB_MULT_DIV_H", TRUE),
    CT(<<ppb_, "/", h_, "*", "#">>,               "g1", "ppb*r", "PPB_MULT_DIV_H", TRUE),
    CT(<<"1", "/", h_, "*", ppb_>>,               "1", "ppb", "PPB_DIV_H", TRUE),
    CT(<<ppb_, "/", "#", "*", "#">>,              "g2/g1", "ppb*r*h", "PPB_MULT", FALSE)
>>

\* the area-based patterns with the second X*bedFeet/100/harvests template
\* returning the result of the template without /harvests
ConvAreaSecondAsPlain == <<
    CT(<<"#", "*", bf_, "/">> \o c100 \o <<"/", h_>>, "g1", "(bf/100)*r", "AREA_DIV_H", TRUE),
    CT(<<"#", "*", bf_, "/">> \o c100,            "g1", "(bf/100)*r*h", "AREA", FALSE),
    CT(<<bf_, "/", h_>>,                          "1", "bf", "BEDLENGTH_DIV_H", TRUE),
    CT(<<bf_, "*", "#", "/", h_>>,                "g1", "bf*r", "BEDLENGTH_DIV_H", TRUE),
    CT(<<"#", "*", "#", "*", bf_, "/", h_>>,      "g1*g2", "bf*r", "BEDLENGTH_DIV_H", TRUE),
    CT(<<"#", "*", bf_, "/">> \o c100 \o <<"/", "#", "*", "#", "*", "#", "/", h_>>,
                                                  "g1/g2*g3*g4", "(bf/100)*r", "AREA_DIV_H", TRUE),
    CT(<<"#", "*", bf_, "/">> \o c100 \o <<"/", h_>>, "g1", "(bf/100)*r*h", "AREA", FALSE)
>>

\* lines 188-229: area-based patterns
ConvArea == <<
    CT(<<"#", "*", bf_, "/">> \o c100 \o <<"/", h_>>, "g1", "(bf/100)*r", "AREA_DIV_H", TRUE),
    CT(<<"#", "*", bf_, "/">> \o c100,            "g1", "(bf/100)*r*h", "AREA", FALSE),
    CT(<<bf_, "/", h_>>,                          "1", "bf", "BEDLENGTH_DIV_H", TRUE),
    CT(<<bf_, "*", "#", "/", h_>>,                "g1", "bf*r", "BEDLENGTH_DIV_H", TRUE),
    CT(<<"#", "*", "#", "*", bf_, "/", h_>>,      "g1*g2", "bf*r", "BEDLENGTH_DIV_H", TRUE),
    CT(<<"#", "*", bf_, "/">> \o c100 \o <<"/", "#", "*", "#", "*", "#", "/", h_>>,
                                                  "g1/g2*g3*g4", "(bf/100)*r", "AREA_DIV_H", TRUE),
    CT(<<"#", "*", bf_, "/">> \o c100 \o <<"/", h_>>, "g1", "(bf/100)*r", "AREA_DIV_H", TRUE)
>>

\* lines 231-273: daysBetweenHarvest-scaled patterns
ConvDbh == <<
    CT(<<ppb_, "*", "#", "*", dbh_, "/", "7">>,   "g1", "ppb*r*(dbh/7)*h", "PPB_WEEKLY_RATE", FALSE),
    CT(<<ppb_, "*", dbh_, "/", "7">>,             "1", "ppb*(dbh/7)*h", "PPB_WEEKLY_RATE", FALSE),
    CT(<<ppb_, "*", "#", "*", "(", dbh_, "/", "7", ")">>, "g1", "ppb*r*(dbh/7)*h", "PPB_WEEKLY_RATE", FALSE),
    CT(<<ppb_, "*", "#", "*", dbh_>>,             "g1", "ppb*r*dbh*h", "PPB_DBH_DIRECT", FALSE),
    CT(<<"#", "*", bf_, "/">> \o c100 \o <<"*", "(", h_, "*", dbh_, ")", "/", "#", "/", h_>>,
                                                  "g1/g2", "(bf/100)*r*dbh*h", "AREA_DBH_SCALED", FALSE),
    CT(<<"#", "*", bf_, "/">> \o c100 \o <<"*", "(", h_, "*", dbh_, ")", "/", "#", "/", h_, "*", "#">>,
                                                  "g1*g3/g2", "(bf/100)*r*dbh*h", "AREA_DBH_SCALED", FALSE)
>>

\* the seed-based and lettuce patterns with the lettuce result marked as
\* per-harvest
ConvSeedsLettuceNotTotal == <<
    CT(<<"1", "/", "#", "*", seeds_, "/", sf_>>,  "1/g1/1.1:.6f", "seeds*r*h", "SEEDS_BASED", FALSE),
    CT(<<"(", "#", "+", "(", h_, "-", "1", ")", "*", "#", "*", ppb_, ")", "/", h_>>,
                                                  "g2", "fixed+(h-1)*r*ppb", "LETTUCE_COMPLEX", FALSE)
>>

\* lines 275-292: seed-based and lettuce patterns
ConvSeedsLettuce == <<
    CT(<<"1", "/", "#", "*", seeds_, "/", sf_>>,  "1/g1/1.1:.6f", "seeds*r*h", "SEEDS_BASED", FALSE),
    CT(<<"(", "#", "+", "(", h_, "-", "1", ")", "*", "#", "*", ppb_, ")", "/", h_>>,
                                                  "g2", "fixed+(h-1)*r*ppb", "LETTUCE_COMPLEX", TRUE)
>>

\* the cascade with the plain plantingsPerBed shapes moved to the front
ConvTemplatesPlainFirst ==
    ConvPpbNoHarvests \o ConvPpbDivHarvests \o ConvPpbCompound \o ConvArea
        \o ConvDbh \o ConvSeedsLettuce

\* the cascade of re.match calls, in source order
ConvTemplates ==
    ConvPpbDivHarvests \o ConvPpbNoHarvests \o ConvPpbCompound \o ConvArea
        \o ConvDbh \o ConvSeedsLettuce

\* class FormulaConversion; pattern "None" is the None result, pattern
\* "ZeroDivisionError" the exception raised while a rate is computed
FormulaConversion(formula, pattern, is_total) ==
    [formula |-> formula, pattern |-> pattern, is_total |-> is_total]

NoConv == FormulaConversion(<<>>, "None", FALSE)
ConvRaised == FormulaConversion(<<>>, "ZeroDivisionError", FALSE)

\* one  m = re.match(...); if m: return FormulaConversion(...)  of the cascade
ConvTry(i, f) ==
    LET t == ConvTemplates[i]
        m == re_match(t.re, f)
    IN  IF ~m.ok THEN NoConv
        ELSE LET rate == Rate(t.rule, m.groups)
             IN  IF ~IsNum(rate) THEN ConvRaised
                 ELSE FormulaConversion(
                        Emit(t.form, rate,
                             IF t.tag = "LETTUCE_COMPLEX" THEN m.groups[1] ELSE None),
                        t.tag, t.is_total)

\* ------------------------------------------------------------------------
\* Arithmetic expressions: eval() of a yieldFormula, and the value of a
\* spreadsheet expression.  + - * / associate to the left, * and / bind
\* tighter, parentheses group.  A division by zero, an unknown name or a
\* malformed expression gives Raised.
\* ------------------------------------------------------------------------
Max(S) == CHOOSE x \in S : \A y \in S : y <= x

IsSym(tok, names) == tok.k = "sym" /\ tok.s \in names

\* nesting depth of position i
DepthAt(toks, i) ==
    Cardinality({j \in 1..(i - 1) : IsSym(toks[j], {"("})})
  - Cardinality({j \in 1..(i - 1) : IsSym(toks[j], {")"})})

TopOps(toks, ops) ==
    {i \in 1..Len(toks) : IsSym(toks[i], ops) /\ DepthAt(toks, i) = 0}

BinOp(op, a, b) ==
    CASE op = "+" -> RAdd(a, b)
      [] op = "-" -> RSub(a, b)
      [] op = "*" -> RMul(a, b)
      [] op = "/" -> RDiv(a, b)

RECURSIVE Eval(_, _)
Eval(toks, env) ==
    IF toks = <<>> THEN Raised
    ELSE LET add == TopOps(toks, {"+", "-"})
             mul == TopOps(toks, {"*", "/"})
             n == Len(toks)
         IN  IF add # {}
             THEN LET i == Max(add)
                  IN  BinOp(toks[i].s, Eval(Take(toks, i - 1), env), Eval(Drop(toks, i), env))
             ELSE IF mul # {}
             THEN LET i == Max(mul)
                  IN  BinOp(toks[i].s, Eval(Take(toks, i - 1), env), Eval(Drop(toks, i), env))
             ELSE IF n = 1
             THEN IF toks[1].k = "num" THEN [n |-> toks[1].n, d |-> toks[1].d]
                  ELSE IF toks[1].s \in DOMAIN env THEN env[toks[1].s]
                  ELSE Raised
             ELSE IF IsSym(toks[1], {"("}) /\ IsSym(toks[n], {")"})
             THEN Eval(SubSeq(toks, 2, n - 1), env)
             ELSE Raised

\* the tokens of an expression text; a line break is white space
RECURSIVE Lex(_)
Lex(s) ==
    IF s = <<>> THEN <<>>
    ELSE LET k == NumLen(s)
         IN  IF k > 0 THEN <<Num(float(Take(s, k)))>> \o Lex(Drop(s, k))
             ELSE IF Head(s) = "\n" THEN Lex(Tail(s))
             ELSE <<Sym(Head(s))>> \o Lex(Tail(s))

\* ------------------------------------------------------------------------
\* calculate_ppb (one copy in each script)
\* ------------------------------------------------------------------------
Twelve == I(12)

conv_calculate_ppb(spacing, rows, bed_length) ==
    IF ~Truthy(spacing) \/ RLeq0(spacing) \/ ~Truthy(rows) \/ RLeq0(rows)
    THEN I(0)
    ELSE RMul(RMul(RDiv(Twelve, spacing), rows), bed_length)

\* calculate_ppb without its "<= 0" tests
mig_calculate_ppb_unguarded(spacing, rows, bed_length) ==
    IF ~Truthy(spacing) \/ ~Truthy(rows)
    THEN I(0)
    ELSE RMul(RMul(RDiv(Twelve, spacing), rows), bed_length)

mig_calculate_ppb(spacing, rows, bed_length) ==
    IF ~Truthy(spacing) \/ RLeq0(spacing) \/ ~Truthy(rows) \/ RLeq0(rows)
    THEN I(0)
    ELSE RMul(RMul(RDiv(Twelve, spacing), rows), bed_length)

\* ------------------------------------------------------------------------
\* migrate-yield-formulas.py: calculate_yield
\* ------------------------------------------------------------------------
Seven == I(7)
Half == Q(1, 2)

\* base_yield with the harvest count already applied on the two default paths
base_yield_times_harvests(model, ppb, bed_length, harvests, dbh, seeds_per_bed, safety_factor) ==
    CASE model.pattern = "PPB_WEEKLY_RATE" ->
            LET weeks == IF Truthy(dbh) THEN RDiv(dbh, Seven) ELSE One
            IN  RMul(RMul(ppb, model.rate), weeks)
      [] model.pattern = "PPB_DBH_DIRECT" ->
            RMul(RMul(ppb, model.rate), dbh)
      [] model.pattern = "AREA_DBH_SCALED" ->
            RMul(RMul(RDiv(bed_length, Hundred), model.rate), dbh)
      [] model.pattern = "SEEDS_BASED" ->
            IF Truthy(safety_factor)
            THEN RDiv(RMul(seeds_per_bed, model.rate), safety_factor)
            ELSE I(0)
      [] model.pattern = "LETTUCE_COMPLEX" ->
            LET fixed_first == IF Truthy(model.extra) THEN model.extra ELSE Half
                uph == IF Truthy(harvests)
                       THEN RDiv(RAdd(fixed_first,
                                      RMul(RMul(RSub(harvests, One), model.rate), ppb)),
                                 harvests)
                       ELSE I(0)
            IN  RMul(uph, harvests)
      [] OTHER ->
            IF model.basis = "per-plant" THEN RMul(RMul(ppb, model.rate), harvests)
            ELSE RMul(RMul(RDiv(bed_length, Hundred), model.rate), harvests)

\* the if/elif chain that sets base_yield
base_yield(model, ppb, bed_length, harvests, dbh, seeds_per_bed, safety_factor) ==
    CASE model.pattern = "PPB_WEEKLY_RATE" ->
            LET weeks == IF Truthy(dbh) THEN RDiv(dbh, Seven) ELSE One
            IN  RMul(RMul(ppb, model.rate), weeks)
      [] model.pattern = "PPB_DBH_DIRECT" ->
            RMul(RMul(ppb, model.rate), dbh)
      [] model.pattern = "AREA_DBH_SCALED" ->
            RMul(RMul(RDiv(bed_length, Hundred), model.rate), dbh)
      [] model.pattern = "SEEDS_BASED" ->
            IF Truthy(safety_factor)
            THEN RDiv(RMul(seeds_per_bed, model.rate), safety_factor)
            ELSE I(0)
      [] model.pattern = "LETTUCE_COMPLEX" ->
            LET fixed_first == IF Truthy(model.extra) THEN model.extra ELSE Half
                uph == IF Truthy(harvests)
                       THEN RDiv(RAdd(fixed_first,
                                      RMul(RMul(RSub(harvests, One), model.rate), ppb)),
                                 harvests)
                       ELSE I(0)
            IN  RMul(uph, harvests)
      [] OTHER ->
            IF model.basis = "per-plant" THEN RMul(ppb, model.rate)
            ELSE RMul(RDiv(bed_length, Hundred), model.rate)

\* calculate_yield that returns base_yield whatever harvest_multiplies is
calculate_yield_without_harvests(model, spacing, rows, bed_length, harvests, dbh, seeds_per_bed, safety_factor) ==
    base_yield(model, mig_calculate_ppb(spacing, rows, bed_length), bed_length,
               harvests, dbh, seeds_per_bed, safety_factor)

\* calculate_yield that multiplies by harvests whatever harvest_multiplies is
calculate_yield_always_multiplies(model, spacing, rows, bed_length, harvests, dbh, seeds_per_bed, safety_factor) ==
    RMul(base_yield(model, mig_calculate_ppb(spacing, rows, bed_length), bed_length,
                    harvests, dbh, seeds_per_bed, safety_factor),
         harvests)

calculate_yield(model, spacing, rows, bed_length, harvests, dbh, seeds_per_bed, safety_factor) ==
    LET ppb == mig_calculate_ppb(spacing, rows, bed_length)
        base == base_yield(model, ppb, bed_length, harvests, dbh, seeds_per_bed, safety_factor)
    IN  IF model.harvest_multiplies THEN RMul(base, harvests) ELSE base

\* ------------------------------------------------------------------------
\* convert-yield-formulas.py: evaluate_formula and the context main builds
\* ------------------------------------------------------------------------
Context(spacing, rows, bed_length, harvests, dbh, seeds_per_bed) ==
    [x \in {ppb_, bf_, h_, dbh_, "rows", "spacing", seeds_} |->
        CASE x = ppb_ -> conv_calculate_ppb(spacing, rows, bed_length)
          [] x = bf_ -> bed_length
          [] x = h_ -> harvests
          [] x = dbh_ -> dbh
          [] x = "rows" -> rows
          [] x = "spacing" -> spacing
          [] x = seeds_ -> seeds_per_bed]

\* eval in the restricted namespace; any exception gives None
evaluate_formula(formula, context) ==
    LET result == Eval(formula, context)
    IN  IF IsNum(result) THEN result ELSE None

\* ------------------------------------------------------------------------
\* Inputs
\* ------------------------------------------------------------------------
MaxHarvests == 5
MaxWeeks == 2

\* number literals as they are written in a formula
Lits == {<<"3">>, <<"0", ".", "2", "5">>, <<"0", ".", "5">>, <<"0">>}
Lit3 == <<"3">>

RECURSIVE Slots(_)
Slots(t) == IF t = <<>> THEN 0
            ELSE (IF Head(t) = "#" THEN 1 ELSE 0) + Slots(Tail(t))

\* the text of shape t with its k-th group replaced by a[k]
RECURSIVE Fill(_, _, _)
Fill(t, a, k) ==
    IF t = <<>> THEN <<>>
    ELSE IF Head(t) = "#" THEN a[k] \o Fill(Tail(t), a, k + 1)
    ELSE <<Head(t)>> \o Fill(Tail(t), a, k)

Shapes == {MigTemplates[i].re : i \in 1..Len(MigTemplates)}

\* every shape with every choice of literals
PlainRaws ==
    UNION {{<<"=">> \o Fill(t, a, 1) : a \in [1..Slots(t) -> Lits]} : t \in Shapes}

ColumnNames == {PPB, H, BL, DBH, SPB, SF, "Standard"}

\* the structured-reference spelling  Crops[[#This Row],[Name]]  of every column
RECURSIVE Structured(_)
Structured(s) ==
    IF s = <<>> THEN <<>>
    ELSE IF IsPrefix(SBL, s)
         THEN TableRef \o <<"[">> \o SBL \o <<"]", "]">> \o Structured(Drop(s, 2))
    ELSE IF Head(s) \in ColumnNames
         THEN TableRef \o <<"[", Head(s), "]", "]">> \o Structured(Tail(s))
    ELSE <<Head(s)>> \o Structured(Tail(s))

Threes(t) == Fill(t, [k \in 1..Slots(t) |-> Lit3], 1)

\* every shape once more: in structured-reference spelling, with a line
\* break or other text after it, and with text before it
DecoratedRaws ==
    UNION {{<<"=">> \o Structured(Threes(t)),
            <<"=">> \o Threes(t) \o <<"\n">>,
            <<"=">> \o Threes(t) \o <<"\n", "\n">>,
            <<"=">> \o Threes(t) \o <<"+", "1">>,
            <<"=", "2", "*">> \o Threes(t)} : t \in Shapes}

\* no formula, texts no template fits, the spelling without spaces, and a
\* formula written with the canonical variable names
OtherRaws == {
    <<>>,
    <<PPB, "*", "3">>,
    <<"3">>,
    <<"=", "IF", "(", H, ">", "1", ",", PPB, ",", "0", ")">>,
    <<"=", "3", "*", BL, "/", "1", "0", "0">>,
    <<"=", ppb_, "*", "3", "/", h_>>,
    <<"=", "PlantingsPerBed", "*", "3">>,
    <<"=", "PlantingsPerBed", "*", "3", "/", H>>,
    <<"=", "(", "0", ".", "5", "+", "(", H, "-", "1", ")", "*",
      "0", ".", "2", "5", "*", "PlantingsPerBed", ")", "/", H>> }

Raws == PlainRaws \cup DecoratedRaws \cup OtherRaws

StdBedLength == 50

RowInputs(spacing, rows, bed_length, harvests, dbh, seeds, safety) ==
    [spacing |-> spacing, rows |-> rows, bed_length |-> bed_length,
     harvests |-> harvests, dbh |-> dbh, seeds_per_bed |-> seeds,
     safety_factor |-> safety]

NoRow == RowInputs(None, None, None, None, None, None, None)

\* the arguments calculate_yield and the context are given
Rows ==
    {RowInputs(sp, I(4), I(StdBedLength), I(hv), I(7 * w), I(165), sf) :
        sp \in {I(0), I(6)},
        hv \in 0..MaxHarvests,
        w \in 0..MaxWeeks,
        sf \in {I(0), I(1), BakedSafetyFactor}}

\* the arguments calculate_ppb is given
PpbRows ==
    {RowInputs(sp, rw, I(bl), None, None, None, None) :
        sp \in {None, I(-6), I(0), I(6), I(12), Q(9, 2)},
        rw \in {None, I(-1), I(0), I(1), I(4)},
        bl \in {0, StdBedLength, 2 * StdBedLength}}

\* ------------------------------------------------------------------------
\* State
\* ------------------------------------------------------------------------
VARIABLES
    pc,       \* where the run is
    raw,      \* the Units Per Harvest formula text
    cf,       \* parse_and_convert: f
    cidx,     \* parse_and_convert: the template being tried
    conv,     \* parse_and_convert: the value returned
    mf,       \* parse_uph_formula: f
    midx,     \* parse_uph_formula: the template being tried
    model,    \* parse_uph_formula: the value returned
    row,      \* the numeric inputs
    cppb,     \* convert: calculate_ppb result
    mppb,     \* migrate: calculate_ppb result
    ctotal,   \* convert: evaluate_formula result
    mtotal,   \* migrate: calculate_yield result
    row_no,   \* main: the loop variable row
    crops,    \* main: whether the Crop cell of each row read so far is filled
    excel_total, \* main: the Custom Yield Per Bed cell of the row
    results,  \* main: the result buckets
    total,    \* main: the total the report prints
    identifier, \* convert main: the Identifier cell of the row, stripped
    shim_data, \* convert main: the yieldFormula written for each identifier
    cells,    \* dag scripts: the references in the formula of each column of row 6
    max_depth, \* trace_dependencies: max_depth
    visited,  \* trace_dependencies: visited
    dag,      \* trace_dependencies: dag; trace-bed-plan-dag.py: depends_on of each column
    stack,    \* the frames of the recursive calls in progress, innermost last
    cache,    \* get_level: cache
    retval,   \* get_level: the value the call that ended last returned
    todo      \* the columns  for col in dag  has not passed to get_level yet

vars == <<pc, raw, cf, cidx, conv, mf, midx, model, row, cppb, mppb, ctotal, mtotal,
          row_no, crops, excel_total, results, total, identifier, shim_data,
          cells, max_depth, visited, dag, stack, cache, retval, todo>>

\* range(3, 350) starts at row 3
FirstRow == 3

\* results = {'matched': [], 'unmatched': [], 'empty': [], 'errors': []}
MigResults == [matched |-> <<>>, unmatched |-> <<>>, empty |-> <<>>, errors |-> <<>>]
\* results = {'converted': [], 'empty': [], 'unmatched': [], 'errors': []}
ConvResults == [converted |-> <<>>, empty |-> <<>>, unmatched |-> <<>>, errors |-> <<>>]

mainvars == <<row_no, crops, excel_total, results, total, identifier, shim_data>>

parsevars == <<raw, cf, cidx, conv, mf, midx, model, row, cppb, mppb, ctotal, mtotal>>

dagvars == <<cells, max_depth, visited, dag, stack, cache, retval, todo>>

\* neither dag script has run
NoDag ==
    /\ cells = <<>>
    /\ max_depth = 0
    /\ visited = {}
    /\ dag = <<>>
    /\ stack = <<>>
    /\ cache = <<>>
    /\ retval = 0
    /\ todo = <<>>

\* main has not run
NoMain ==
    /\ row_no = FirstRow - 1
    /\ crops = <<>>
    /\ excel_total = None
    /\ results = MigResults
    /\ total = 0
    /\ identifier = <<>>
    /\ shim_data = <<>>

Init ==
    /\ pc = "convert"
    /\ raw \in Raws
    /\ cf = <<>> /\ cidx = 0 /\ conv = NoConv
    /\ mf = <<>> /\ midx = 0 /\ model = NoModel
    /\ row = NoRow
    /\ cppb = None /\ mppb = None
    /\ ctotal = None /\ mtotal = None
    /\ NoMain
    /\ NoDag

\* parse_and_convert, lines 45-63: the guard, then the normalisation
ConvEnter ==
    /\ pc = "convert"
    /\ IF raw = <<>> \/ ~startswith(raw, <<"=">>)
       THEN /\ conv' = NoConv
            /\ pc' = "migrate"
            /\ UNCHANGED <<cf, cidx>>
       ELSE /\ cf' = conv_normalize(raw)
            /\ cidx' = 1
            /\ pc' = "convert_match"
            /\ UNCHANGED conv
    /\ UNCHANGED <<raw, mf, midx, model, row, cppb, mppb, ctotal, mtotal>>
    /\ UNCHANGED mainvars
    /\ UNCHANGED dagvars

\* parse_and_convert, lines 71-294: the next re.match of the cascade
ConvMatch ==
    /\ pc = "convert_match"
    /\ LET r == ConvTry(cidx, cf)
       IN  IF r # NoConv
           THEN conv' = r /\ pc' = "migrate" /\ UNCHANGED cidx
           ELSE IF cidx = Len(ConvTemplates)
           THEN conv' = NoConv /\ pc' = "migrate" /\ UNCHANGED cidx
           ELSE cidx' = cidx + 1 /\ UNCHANGED <<conv, pc>>
    /\ UNCHANGED <<raw, cf, mf, midx, model, row, cppb, mppb, ctotal, mtotal>>
    /\ UNCHANGED mainvars
    /\ UNCHANGED dagvars

\* parse_uph_formula with the guard reduced to  if not formula
MigEnterEmptyOnly ==
    /\ pc = "migrate"
    /\ IF raw = <<>>
       THEN /\ model' = NoModel
            /\ pc' = "row"
            /\ UNCHANGED <<mf, midx>>
       ELSE /\ mf' = mig_normalize(raw)
            /\ midx' = 1
            /\ pc' = "migrate_match"
            /\ UNCHANGED model
    /\ UNCHANGED <<raw, cf, cidx, conv, row, cppb, mppb, ctotal, mtotal>>
    /\ UNCHANGED mainvars
    /\ UNCHANGED dagvars

\* parse_uph_formula, lines 29-34
MigEnter ==
    /\ pc = "migrate"
    /\ IF raw = <<>> \/ ~startswith(raw, <<"=">>)
       THEN /\ model' = NoModel
            /\ pc' = "row"
            /\ UNCHANGED <<mf, midx>>
       ELSE /\ mf' = mig_normalize(raw)
            /\ midx' = 1
            /\ pc' = "migrate_match"
            /\ UNCHANGED model
    /\ UNCHANGED <<raw, cf, cidx, conv, row, cppb, mppb, ctotal, mtotal>>
    /\ UNCHANGED mainvars
    /\ UNCHANGED dagvars

\* parse_uph_formula, lines 38-244: the next re.match of the cascade
MigMatch ==
    /\ pc = "migrate_match"
    /\ LET r == MigTry(midx, mf)
       IN  IF r # NoModel
           THEN model' = r /\ pc' = "row" /\ UNCHANGED midx
           ELSE IF midx = Len(MigTemplates)
           THEN model' = NoModel /\ pc' = "row" /\ UNCHANGED midx
           ELSE midx' = midx + 1 /\ UNCHANGED <<model, pc>>
    /\ UNCHANGED <<raw, cf, cidx, conv, mf, row, cppb, mppb, ctotal, mtotal>>
    /\ UNCHANGED mainvars
    /\ UNCHANGED dagvars

Matched(m) == m.pattern \notin {"None", "ZeroDivisionError"}

\* the numeric inputs of the row; nothing is evaluated when neither
\* recogniser returned a result
ReadRow ==
    /\ pc = "row"
    /\ IF Matched(conv) \/ Matched(model)
       THEN /\ row' \in Rows
            /\ pc' = "calculate_yield"
       ELSE /\ pc' = "done"
            /\ UNCHANGED row
    /\ UNCHANGED <<raw, cf, cidx, conv, mf, midx, model, cppb, mppb, ctotal, mtotal>>
    /\ UNCHANGED mainvars
    /\ UNCHANGED dagvars

\* calculate_yield(model, ...) on the model parse_uph_formula returned
CalculateYield ==
    /\ pc = "calculate_yield"
    /\ IF Matched(model)
       THEN /\ mppb' = mig_calculate_ppb(row.spacing, row.rows, row.bed_length)
            /\ mtotal' = calculate_yield(model, row.spacing, row.rows, row.bed_length,
                                         row.harvests, row.dbh, row.seeds_per_bed,
                                         row.safety_factor)
       ELSE UNCHANGED <<mppb, mtotal>>
    /\ pc' = "evaluate_formula"
    /\ UNCHANGED <<raw, cf, cidx, conv, mf, midx, model, row, cppb, ctotal>>
    /\ UNCHANGED mainvars
    /\ UNCHANGED dagvars

\* evaluate_formula(conversion.formula, context) on what parse_and_convert returned
EvaluateFormula ==
    /\ pc = "evaluate_formula"
    /\ IF Matched(conv)
       THEN /\ cppb' = conv_calculate_ppb(row.spacing, row.rows, row.bed_length)
            /\ ctotal' = evaluate_formula(conv.formula,
                              Context(row.spacing, row.rows, row.bed_length,
                                      row.harvests, row.dbh, row.seeds_per_bed))
       ELSE UNCHANGED <<cppb, ctotal>>
    /\ pc' = "done"
    /\ UNCHANGED <<raw, cf, cidx, conv, mf, midx, model, row, mppb, mtotal>>
    /\ UNCHANGED mainvars
    /\ UNCHANGED dagvars

Next == ConvEnter \/ ConvMatch \/ MigEnter \/ MigMatch \/ ReadRow
        \/ CalculateYield \/ EvaluateFormula

Spec == Init /\ [][Next]_vars

\* ------------------------------------------------------------------------
\* The value of the spreadsheet's own Units Per Harvest expression on a row
\* ------------------------------------------------------------------------
ReferenceSyntax == {"=", "[", "]", "Crops", "#This Row", ","}

NotReferenceSyntax(a) == a \notin ReferenceSyntax

\* the expression with every column reference reduced to the column's name
ColumnText(formula) ==
    replace(SelectSeq(formula, NotReferenceSyntax), SBL, <<"StandardBedLength">>)

SheetEnv(r) ==
    [x \in {PPB, H, BL, "StandardBedLength", DBH, SPB, SF} |->
        CASE x = PPB -> RMul(RMul(RDiv(Twelve, r.spacing), r.rows), r.bed_length)
          [] x = H -> r.harvests
          [] x = BL -> r.bed_length
          [] x = "StandardBedLength" -> Hundred
          [] x = DBH -> r.dbh
          [] x = SPB -> r.seeds_per_bed
          [] x = SF -> r.safety_factor]

UnitsPerHarvest(formula, r) == Eval(Lex(ColumnText(formula)), SheetEnv(r))

PositiveRow(r) ==
    /\ IsNum(r.harvests) /\ r.harvests.n > 0
    /\ IsNum(r.spacing) /\ r.spacing.n > 0
    /\ IsNum(r.rows) /\ r.rows.n > 0
    /\ IsNum(r.safety_factor) /\ r.safety_factor.n > 0

SheetTotal == RMul(row.harvests, UnitsPerHarvest(raw, row))

\* C1: for every formula a template matches and every row with harvests,
\* spacing, rows and safety factor all positive, the total of each script
\* (evaluate_formula on the emitted yieldFormula, calculate_yield on the
\* YieldModel) equals harvests times the value of the original expression.
C1_ReemittedFormulaEquivalent ==
    (pc = "done" /\ PositiveRow(row) /\ IsNum(SheetTotal)) =>
        /\ (Matched(conv) => ctotal = SheetTotal)
        /\ (Matched(model) => mtotal = SheetTotal)

\* ------------------------------------------------------------------------
\* calculate_ppb on its own: both copies applied to the same arguments
\* ------------------------------------------------------------------------
InitPpb ==
    /\ pc = "calculate_ppb"
    /\ raw = <<>>
    /\ cf = <<>> /\ cidx = 0 /\ conv = NoConv
    /\ mf = <<>> /\ midx = 0 /\ model = NoModel
    /\ row \in PpbRows
    /\ cppb = None /\ mppb = None
    /\ ctotal = None /\ mtotal = None
    /\ NoMain
    /\ NoDag

CalculatePpb ==
    /\ pc = "calculate_ppb"
    /\ cppb' = conv_calculate_ppb(row.spacing, row.rows, row.bed_length)
    /\ mppb' = mig_calculate_ppb(row.spacing, row.rows, row.bed_length)
    /\ pc' = "ppb_done"
    /\ UNCHANGED <<raw, cf, cidx, conv, mf, midx, model, row, ctotal, mtotal>>
    /\ UNCHANGED mainvars
    /\ UNCHANGED dagvars

NextPpb == CalculatePpb

SpecPpb == InitPpb /\ [][NextPpb]_vars

\* ------------------------------------------------------------------------
\* main of each script: the loop over the rows of the Crop Chart sheet and
\* the report after it
\* ------------------------------------------------------------------------
Min(S) == CHOOSE x \in S : \A y \in S : x <= y

\* parse_uph_formula as one call: the first template of the cascade that
\* matches decides
parse_uph_formula(formula) ==
    IF formula = <<>> \/ ~startswith(formula, <<"=">>) THEN NoModel
    ELSE LET f == mig_normalize(formula)
             hits == {i \in 1..Len(MigTemplates) : MigTry(i, f) # NoModel}
         IN  IF hits = {} THEN NoModel ELSE MigTry(Min(hits), f)

\* parse_and_convert as one call
parse_and_convert(excel_formula) ==
    IF excel_formula = <<>> \/ ~startswith(excel_formula, <<"=">>) THEN NoConv
    ELSE LET f == conv_normalize(excel_formula)
             hits == {i \in 1..Len(ConvTemplates) : ConvTry(i, f) # NoConv}
         IN  IF hits = {} THEN NoConv ELSE ConvTry(Min(hits), f)

\* the cells main reads from one sheet row; an empty Identifier cell is the
\* empty text (None and '' are both false and are treated alike)
SheetRow(crop, id, uph_formula, spacing, rows, harvests, dbh, seeds, safety, excel) ==
    [crop |-> crop, identifier |-> id,
     uph_formula |-> uph_formula, spacing |-> spacing, rows |-> rows,
     harvests |-> harvests, dbh |-> dbh, seeds_per_bed |-> seeds,
     safety_factor |-> safety, excel_total |-> excel]

\* cell.value or default
Or(cell, default) == IF Truthy(cell) THEN cell ELSE default

\* the values main passes on: bed_length = 50 and the "or" defaults
Locals(c) ==
    RowInputs(c.spacing, c.rows, I(StdBedLength), c.harvests,
              Or(c.dbh, Seven), Or(c.seeds_per_bed, I(0)), Or(c.safety_factor, One))

\* if spacing and rows_val and harvests
Validates(c) == Truthy(c.spacing) /\ Truthy(c.rows) /\ Truthy(c.harvests)

\* the 0.01 of migrate's "abs(calculated_total - excel_total) > 0.01"
Cent == Q(1, 100)

\* abs(computed - expected) / expected * 100 if expected else 0
error_pct(computed, expected) ==
    IF Truthy(expected)
    THEN RMul(RDiv(RAbs(RSub(computed, expected)), expected), Hundred)
    ELSE I(0)

\* ---- migrate-yield-formulas.py ----
\* calculated_total = calculate_yield(model, ...), lines 359-362
mig_calculated(c, ym) ==
    LET l == Locals(c)
    IN  calculate_yield(ym, l.spacing, l.rows, l.bed_length, l.harvests, l.dbh,
                        l.seeds_per_bed, l.safety_factor)

\* the loop body with the rows the parser returns None for appended to 'empty'
mig_bucket_unmatched_as_empty(c, ym, calc) ==
    IF ~c.crop THEN "skip"
    ELSE IF c.uph_formula = <<>> THEN "empty"
    ELSE IF ym = ModelRaised THEN "raise"
    ELSE IF ym = NoModel THEN "empty"
    ELSE IF ~Validates(c) THEN "matched"
    ELSE IF ~IsNum(calc) THEN "errors"
    ELSE IF ~Truthy(c.excel_total) THEN "matched"
    ELSE IF ~IsNum(c.excel_total) THEN "errors"
    ELSE IF RGt(RAbs(RSub(calc, c.excel_total)), Cent)
            /\ RGt(error_pct(calc, c.excel_total), One)
         THEN "errors"
    ELSE "matched"

\* the bucket the loop body appends the row to, given the model the parser
\* returned and the total calculate_yield returned; "skip" is the continue
\* of a row without a Crop, "raise" an exception that leaves main
mig_bucket(c, ym, calc) ==
    IF ~c.crop THEN "skip"
    ELSE IF c.uph_formula = <<>> THEN "empty"
    ELSE IF ym = ModelRaised THEN "raise"
    ELSE IF ym = NoModel THEN "unmatched"
    ELSE IF ~Validates(c) THEN "matched"
    ELSE IF ~IsNum(calc) THEN "errors"
    ELSE IF ~Truthy(c.excel_total) THEN "matched"
    ELSE IF ~IsNum(c.excel_total) THEN "errors"
    ELSE IF RGt(RAbs(RSub(calc, c.excel_total)), Cent)
            /\ RGt(error_pct(calc, c.excel_total), One)
         THEN "errors"
    ELSE "matched"

\* the record with the normalised text in place of str(uph_formula)
mig_entry_normalised(b, r, c, ym, calc) ==
    CASE b = "empty" -> [row |-> r]
      [] b = "unmatched" -> [row |-> r, formula |-> mig_normalize(c.uph_formula)]
      [] b = "errors" ->
            IF IsNum(calc) /\ IsNum(c.excel_total)
            THEN [row |-> r, formula |-> c.uph_formula, pattern |-> ym.pattern,
                  expected |-> c.excel_total, calculated |-> calc,
                  error_pct |-> error_pct(calc, c.excel_total)]
            ELSE [row |-> r, formula |-> c.uph_formula, error |-> "TypeError"]
      [] b = "matched" ->
            [row |-> r, basis |-> ym.basis, rate |-> ym.rate,
             harvest_multiplies |-> ym.harvest_multiplies,
             pattern |-> ym.pattern, extra |-> ym.extra,
             validated_total |-> IF Validates(c) THEN calc ELSE None]

\* the dict appended to the bucket (without crop and product)
mig_entry(b, r, c, ym, calc) ==
    CASE b = "empty" -> [row |-> r]
      [] b = "unmatched" -> [row |-> r, formula |-> c.uph_formula]
      [] b = "errors" ->
            IF IsNum(calc) /\ IsNum(c.excel_total)
            THEN [row |-> r, formula |-> c.uph_formula, pattern |-> ym.pattern,
                  expected |-> c.excel_total, calculated |-> calc,
                  error_pct |-> error_pct(calc, c.excel_total)]
            ELSE [row |-> r, formula |-> c.uph_formula, error |-> "TypeError"]
      [] b = "matched" ->
            [row |-> r, basis |-> ym.basis, rate |-> ym.rate,
             harvest_multiplies |-> ym.harvest_multiplies,
             pattern |-> ym.pattern, extra |-> ym.extra,
             validated_total |-> IF Validates(c) THEN calc ELSE None]

\* results[b].append(e)
Add(res, b, e) == [res EXCEPT ![b] = Append(@, e)]

\* the appends of the loop body without the continue after the mismatch record
mig_main_row_no_continue(res, b, r, c, ym, calc) ==
    IF b \in {"skip", "raise"} THEN res
    ELSE IF b = "errors"
    THEN Add(Add(res, b, mig_entry(b, r, c, ym, calc)),
             "matched", mig_entry("matched", r, c, ym, calc))
    ELSE Add(res, b, mig_entry(b, r, c, ym, calc))

\* the appends of the loop body, lines 318-411
mig_main_row(res, b, r, c, ym, calc) ==
    IF b \in {"skip", "raise"} THEN res ELSE Add(res, b, mig_entry(b, r, c, ym, calc))

\* ---- convert-yield-formulas.py ----
\* str.strip(): leading and trailing blanks removed
RECURSIVE lstrip(_)
lstrip(s) == IF s # <<>> /\ Head(s) = " " THEN lstrip(Tail(s)) ELSE s

RECURSIVE rstrip(_)
rstrip(s) == IF s # <<>> /\ s[Len(s)] = " " THEN rstrip(Take(s, Len(s) - 1)) ELSE s

strip(s) == rstrip(lstrip(s))

\* our_total = evaluate_formula(conversion.formula, context), lines 400-411
conv_our_total(c, conversion) ==
    LET l == Locals(c)
    IN  evaluate_formula(conversion.formula,
                         Context(l.spacing, l.rows, l.bed_length, l.harvests,
                                 l.dbh, l.seeds_per_bed))

\* the bucket the loop body appends the row to, lines 355-440
conv_bucket(c, conversion, our_total) ==
    IF ~c.crop THEN "skip"
    ELSE IF c.uph_formula = <<>> THEN "empty"
    ELSE IF conversion = ConvRaised THEN "raise"
    ELSE IF conversion = NoConv THEN "unmatched"
    ELSE IF ~Validates(c) THEN "converted"
    ELSE IF our_total = None \/ c.excel_total = None THEN "converted"
    ELSE IF ~IsNum(c.excel_total) THEN "raise"
    ELSE IF RGt(error_pct(our_total, c.excel_total), One) THEN "errors"
    ELSE "converted"

\* the dict appended to the bucket (without crop and product)
conv_entry(b, r, c, conversion, our_total) ==
    CASE b = "empty" -> [row |-> r, identifier |-> strip(c.identifier)]
      [] b = "unmatched" -> [row |-> r, identifier |-> strip(c.identifier),
                             excel_formula |-> c.uph_formula]
      [] b = "errors" ->
            [row |-> r, identifier |-> strip(c.identifier),
             excel_formula |-> c.uph_formula,
             our_formula |-> conversion.formula, pattern |-> conversion.pattern,
             expected |-> c.excel_total, calculated |-> our_total,
             error_pct |-> error_pct(our_total, c.excel_total)]
      [] b = "converted" ->
            [row |-> r, identifier |-> strip(c.identifier),
             yieldFormula |-> conversion.formula,
             pattern |-> conversion.pattern, validated |-> c.excel_total # None]

\* the appends of the loop body, lines 355-440
conv_main_row(res, b, r, c, conversion, our_total) ==
    IF b \in {"skip", "raise"} THEN res
    ELSE Add(res, b, conv_entry(b, r, c, conversion, our_total))

\* ---- the sheet ----
MaxRows == 2
LastRow == FirstRow + MaxRows - 1

\* Units Per Harvest cells: empty, text without "=", a formula no template
\* fits, two formulas of the plantingsPerBed*k shape (totals 1200 and 0 on
\* the rows below) and one whose rate divides by zero
MainFormulas == {
    <<>>,
    <<PPB, "*", "3">>,
    <<"=", "IF", "(", H, ">", "1", ",", PPB, ",", "0", ")">>,
    <<"=", PPB, "*", "3">>,
    <<"=", PPB, "*", "0">>,
    <<"=", PPB, "/", "0">> }

\* Custom Yield Per Bed cells: empty, 0, the computed 1200, the values 1200
\* is 1% and 1.01% above, a small value, and an error text
ExcelTotals == {None, I(0), I(1200), Q(120000, 101), Q(12000000, 10101),
                Q(1, 200), Text}

BlankRow == SheetRow(FALSE, <<>>, <<>>, None, None, None, None, None, None, None)

\* Identifier cells: empty, blank, a name, the same name with a trailing
\* blank, another name
Identifiers == {<<>>, <<" ">>, <<"A">>, <<"A", " ">>, <<"B">>}

\* every combination of formula, spacing and cached total under one
\* identifier, and the other identifiers on rows that convert
SheetRows ==
    {BlankRow} \cup
    {SheetRow(TRUE, <<"A">>, f, sp, I(4), I(1), None, None, None, ex) :
        f \in MainFormulas, sp \in {None, I(6)}, ex \in ExcelTotals} \cup
    {SheetRow(TRUE, id, f, I(6), I(4), I(1), None, None, None, None) :
        id \in Identifiers, f \in {<<"=", PPB, "*", "3">>, <<"=", PPB, "*", "0">>}}

InitMain ==
    /\ pc \in {"migrate_main", "convert_main"}
    /\ raw = <<>>
    /\ cf = <<>> /\ cidx = 0 /\ conv = NoConv
    /\ mf = <<>> /\ midx = 0 /\ model = NoModel
    /\ row = NoRow
    /\ cppb = None /\ mppb = None
    /\ ctotal = None /\ mtotal = None
    /\ row_no = FirstRow - 1
    /\ crops = <<>>
    /\ excel_total = None
    /\ results = IF pc = "migrate_main" THEN MigResults ELSE ConvResults
    /\ total = 0
    /\ identifier = <<>>
    /\ shim_data = <<>>
    /\ NoDag

\* one pass of migrate's  for row in range(3, 350)
MigrateRow ==
    /\ pc = "migrate_main"
    /\ row_no < LastRow
    /\ \E c \in SheetRows :
       \E ym \in {parse_uph_formula(c.uph_formula)} :
       \E calc \in {mig_calculated(c, ym)} :
       \E b \in {mig_bucket(c, ym, calc)} :
            /\ row_no' = row_no + 1
            /\ crops' = Append(crops, c.crop)
            /\ IF b = "skip"
               THEN UNCHANGED <<raw, row, excel_total, model, mtotal>>
               ELSE /\ raw' = c.uph_formula
                    /\ row' = Locals(c)
                    /\ excel_total' = c.excel_total
                    /\ model' = IF b \in {"empty", "raise"} THEN model ELSE ym
                    /\ mtotal' = IF b \in {"matched", "errors"} /\ Validates(c) /\ IsNum(calc)
                                 THEN calc ELSE mtotal
            /\ results' = mig_main_row(results, b, row_no + 1, c, ym, calc)
            /\ pc' = IF b = "raise" THEN "aborted" ELSE pc
    /\ UNCHANGED <<cf, cidx, conv, mf, midx, cppb, mppb, ctotal, total,
                   identifier, shim_data>>
    /\ UNCHANGED dagvars

\* Sum of the bucket lengths
BucketTotal(res) ==
    Len(res.unmatched) + Len(res.empty) + Len(res.errors)
    + (IF "matched" \in DOMAIN res THEN Len(res.matched) ELSE Len(res.converted))

\* after the loop: total (lines 418-420), then the percentages, which divide
\* by total, then the result files
MigrateReport ==
    /\ pc = "migrate_main"
    /\ row_no = LastRow
    /\ total' = BucketTotal(results)
    /\ pc' = IF total' = 0 THEN "aborted" ELSE "migrate_done"
    /\ UNCHANGED <<raw, cf, cidx, conv, mf, midx, model, row, cppb, mppb, ctotal, mtotal,
                   row_no, crops, excel_total, results, identifier, shim_data>>
    /\ UNCHANGED dagvars

\* the pass of convert's loop with excel_total left over from the row before
\* when the Custom Yield Per Bed cell of this row is empty
ConvertRowStaleExcelTotal ==
    /\ pc = "convert_main"
    /\ row_no < LastRow
    /\ \E cell \in SheetRows :
       \E c \in {IF cell.excel_total = None
                 THEN [cell EXCEPT !.excel_total = excel_total] ELSE cell} :
       \E conversion \in {parse_and_convert(c.uph_formula)} :
       \E our_total \in {conv_our_total(c, conversion)} :
       \E b \in {conv_bucket(c, conversion, our_total)} :
            /\ row_no' = row_no + 1
            /\ crops' = Append(crops, c.crop)
            /\ IF b = "skip"
               THEN UNCHANGED <<raw, row, excel_total, conv, cppb, ctotal, identifier>>
               ELSE /\ raw' = c.uph_formula
                    /\ identifier' = strip(c.identifier)
                    /\ row' = Locals(c)
                    /\ excel_total' = cell.excel_total
                    /\ conv' = IF b = "empty" \/ conversion = ConvRaised THEN conv
                               ELSE conversion
                    /\ IF b \in {"empty", "unmatched"} \/ conversion = ConvRaised
                          \/ ~Validates(c)
                       THEN UNCHANGED <<cppb, ctotal>>
                       ELSE /\ cppb' = conv_calculate_ppb(c.spacing, c.rows, I(StdBedLength))
                            /\ ctotal' = our_total
            /\ results' = conv_main_row(results, b, row_no + 1, c, conversion, our_total)
            /\ pc' = IF b = "raise" THEN "aborted" ELSE pc
    /\ UNCHANGED <<cf, cidx, mf, midx, model, mppb, mtotal, total, shim_data>>
    /\ UNCHANGED dagvars

\* one pass of convert's  for row in range(3, 350)
ConvertRow ==
    /\ pc = "convert_main"
    /\ row_no < LastRow
    /\ \E c \in SheetRows :
       \E conversion \in {parse_and_convert(c.uph_formula)} :
       \E our_total \in {conv_our_total(c, conversion)} :
       \E b \in {conv_bucket(c, conversion, our_total)} :
            /\ row_no' = row_no + 1
            /\ crops' = Append(crops, c.crop)
            /\ IF b = "skip"
               THEN UNCHANGED <<raw, row, excel_total, conv, cppb, ctotal, identifier>>
               ELSE /\ raw' = c.uph_formula
                    /\ identifier' = strip(c.identifier)
                    /\ row' = Locals(c)
                    /\ excel_total' = c.excel_total
                    /\ conv' = IF b = "empty" \/ conversion = ConvRaised THEN conv
                               ELSE conversion
                    /\ IF b \in {"empty", "unmatched"} \/ conversion = ConvRaised
                          \/ ~Validates(c)
                       THEN UNCHANGED <<cppb, ctotal>>
                       ELSE /\ cppb' = conv_calculate_ppb(c.spacing, c.rows, I(StdBedLength))
                            /\ ctotal' = our_total
            /\ results' = conv_main_row(results, b, row_no + 1, c, conversion, our_total)
            /\ pc' = IF b = "raise" THEN "aborted" ELSE pc
    /\ UNCHANGED <<cf, cidx, mf, midx, model, mppb, mtotal, total, shim_data>>
    /\ UNCHANGED dagvars

\* lines 474-479: shim_data[item['identifier']] = {'yieldFormula': ...} for
\* each item of results['converted'] that has an identifier, in list order
RECURSIVE shim(_, _)
shim(data, items) ==
    IF items = <<>> THEN data
    ELSE LET item == Head(items)
         IN  IF item.identifier = <<>> THEN shim(data, Tail(items))
             ELSE shim([k \in DOMAIN data \cup {item.identifier} |->
                           IF k = item.identifier THEN item.yieldFormula ELSE data[k]],
                       Tail(items))

\* the report with a shim that keeps the first row of an identifier
ConvertReportFirstWins ==
    /\ pc = "convert_main"
    /\ row_no = LastRow
    /\ total' = BucketTotal(results)
    /\ pc' = IF total' = 0 THEN "aborted" ELSE "convert_done"
    /\ shim_data' =
          IF total' = 0 THEN shim_data
          ELSE LET items == results.converted
               IN  [id \in {items[i].identifier : i \in DOMAIN items} \ {<<>>} |->
                       items[Min({i \in DOMAIN items : items[i].identifier = id})].yieldFormula]
    /\ UNCHANGED <<raw, cf, cidx, conv, mf, midx, model, row, cppb, mppb, ctotal, mtotal,
                   row_no, crops, excel_total, results, identifier>>
    /\ UNCHANGED dagvars

\* after the loop: total (lines 447-449), then the percentages, then the shim
\* file and the result file
ConvertReport ==
    /\ pc = "convert_main"
    /\ row_no = LastRow
    /\ total' = BucketTotal(results)
    /\ pc' = IF total' = 0 THEN "aborted" ELSE "convert_done"
    /\ shim_data' = IF total' = 0 THEN shim_data ELSE shim(<<>>, results.converted)
    /\ UNCHANGED <<raw, cf, cidx, conv, mf, midx, model, row, cppb, mppb, ctotal, mtotal,
                   row_no, crops, excel_total, results, identifier>>
    /\ UNCHANGED dagvars

NextMain == MigrateRow \/ MigrateReport \/ ConvertRow \/ ConvertReport

SpecMain == InitMain /\ [][NextMain]_vars

\* ------------------------------------------------------------------------
\* trace-formula-dag.py: trace_dependencies(start_col, row=6, max_depth)
\* ------------------------------------------------------------------------
\* neither parser has run
NoParse ==
    /\ raw = <<>>
    /\ cf = <<>> /\ cidx = 0 /\ conv = NoConv
    /\ mf = <<>> /\ midx = 0 /\ model = NoModel
    /\ row = NoRow
    /\ cppb = None /\ mppb = None
    /\ ctotal = None /\ mtotal = None

\* the columns of the sheet
Cols == {1, 2, 3, 4}

\* start_col
StartCol == Min(Cols)

\* row=6
TraceRow == 6

\* the largest max_depth tried
MaxDepth == 2

\* what parse_cell_ref returns for one reference of a formula
Ref(col, r) == [col |-> col, row |-> r]

\* the references get_cell_refs_from_formula finds in a cell, in the order
\* of the formula: none (no formula, or one without references), one
\* reference in the same row, two in either order, one to another row
RefLists ==
    {<<>>} \cup {<<Ref(c, TraceRow)>> : c \in Cols}
        \cup {<<Ref(2, TraceRow), Ref(3, TraceRow)>>, <<Ref(3, TraceRow), Ref(2, TraceRow)>>,
              <<Ref(3, TraceRow + 1)>>}

\* a call of trace(col, depth); i = 0 before the body has run, then the
\* index of the next ref of the for loop
TraceFrame(col, depth) == [col |-> col, depth |-> depth, i |-> 0]

Top == stack[Len(stack)]
Pop == Take(stack, Len(stack) - 1)

InitTrace ==
    /\ pc = "trace"
    /\ cells \in [Cols -> RefLists]
    /\ max_depth \in 1..MaxDepth
    /\ visited = {}
    /\ dag = [c \in Cols |-> <<>>]
    /\ stack = <<TraceFrame(StartCol, 0)>>
    /\ cache = <<>> /\ retval = 0 /\ todo = <<>>
    /\ NoParse
    /\ NoMain

\* trace entered without the test  if col in visited
TraceEnterNoVisited ==
    /\ pc = "trace" /\ stack # <<>> /\ Top.i = 0
    /\ IF Top.depth > max_depth
       THEN stack' = Pop /\ UNCHANGED visited
       ELSE /\ visited' = visited \cup {Top.col}
            /\ stack' = [stack EXCEPT ![Len(stack)].i = 1]
    /\ UNCHANGED <<pc, cells, max_depth, dag, cache, retval, todo>>
    /\ UNCHANGED parsevars
    /\ UNCHANGED mainvars

\* lines 76-86: the two early returns, visited.add(col), the cell is read (a
\* cell without a formula has no references and the loop below ends at once)
TraceEnter ==
    /\ pc = "trace" /\ stack # <<>> /\ Top.i = 0
    /\ IF Top.depth > max_depth \/ Top.col \in visited
       THEN stack' = Pop /\ UNCHANGED visited
       ELSE /\ visited' = visited \cup {Top.col}
            /\ stack' = [stack EXCEPT ![Len(stack)].i = 1]
    /\ UNCHANGED <<pc, cells, max_depth, dag, cache, retval, todo>>
    /\ UNCHANGED parsevars
    /\ UNCHANGED mainvars

\* lines 90-94: one pass of  for ref in refs
TraceRef ==
    /\ pc = "trace" /\ stack # <<>>
    /\ Top.i \in 1..Len(cells[Top.col])
    /\ LET ref == cells[Top.col][Top.i]
           next == [stack EXCEPT ![Len(stack)].i = Top.i + 1]
       IN  IF ref.col # 0 /\ ref.row = TraceRow
           THEN /\ dag' = [dag EXCEPT ![Top.col] = Append(@, ref.col)]
                /\ stack' = Append(next, TraceFrame(ref.col, Top.depth + 1))
           ELSE /\ stack' = next
                /\ UNCHANGED dag
    /\ UNCHANGED <<pc, cells, max_depth, visited, cache, retval, todo>>
    /\ UNCHANGED parsevars
    /\ UNCHANGED mainvars

\* the for loop is exhausted and trace returns to its caller
TraceReturn ==
    /\ pc = "trace" /\ stack # <<>>
    /\ Top.i > Len(cells[Top.col])
    /\ stack' = Pop
    /\ UNCHANGED <<pc, cells, max_depth, visited, dag, cache, retval, todo>>
    /\ UNCHANGED parsevars
    /\ UNCHANGED mainvars

\* lines 96-97: trace(start_col) has returned; return dag
TraceDone ==
    /\ pc = "trace" /\ stack = <<>>
    /\ pc' = "trace_done"
    /\ UNCHANGED dagvars
    /\ UNCHANGED parsevars
    /\ UNCHANGED mainvars

NextTrace == TraceEnter \/ TraceRef \/ TraceReturn \/ TraceDone

SpecTrace == InitTrace /\ [][NextTrace]_vars

\* the interpreter goes on with the call in progress
SpecTraceLive == SpecTrace /\ WF_vars(NextTrace)

\* ------------------------------------------------------------------------
\* trace-bed-plan-dag.py: build_dag, then get_level for each column of the dag
\* ------------------------------------------------------------------------
\* all_cols, the columns build_dag goes through
DagCols == <<1, 2, 3>>

\* headers: the column of each header name; a name is written here as its
\* column, 0 for a name that is no header
Headers == Cols

\* BedPlan[[#This Row],[name]] and BedPlan[name] in a formula
ThisRow(name) == [kind |-> "this_row", name |-> name]
WholeColumn(name) == [kind |-> "column", name |-> name]

\* the structured references of a cell: none, one same-row reference, one
\* whole-column reference to the first column, two references, the same
\* name in both forms, a name that is no header
LevelFormulas ==
    {<<>>} \cup {<<ThisRow(n)>> : n \in Cols}
        \cup {<<WholeColumn(1)>>, <<ThisRow(2), ThisRow(3)>>, <<ThisRow(3), WholeColumn(3)>>,
              <<ThisRow(0)>>}

\* the sequences that list every element of S once
Orderings(S) ==
    {s \in [1..Cardinality(S) -> S] : \A i, j \in DOMAIN s : i # j => s[i] # s[j]}

\* list(set(refs)) of the names both findall calls return; the order of a
\* list made from a set of strings is not fixed
parse_structured_refs(formula) ==
    Orderings({formula[i].name : i \in {j \in DOMAIN formula :
                                          formula[j].kind \in {"this_row", "column"}}})

\* deps of get_formula_dependencies for a given list of names
FormulaDeps(col_refs) == SelectSeq(col_refs, LAMBDA ref : ref \in Headers)

\* the largest number of calls in progress
RecursionLimit == 6

\* a call of get_level(col, dag, cache); i = 0 before the body has run, then
\* the index of the dependency the generator of max() is at; levels holds
\* the values it has yielded
LevelFrame(col) == [col |-> col, i |-> 0, levels |-> <<>>]

\* dag.get(col, {}).get("depends_on", [])
DependsOn(col) == IF col \in DOMAIN dag THEN dag[col] ELSE <<>>

\* cache[col] = level
Cached(col, level) ==
    [k \in DOMAIN cache \cup {col} |-> IF k = col THEN level ELSE cache[k]]

InitLevel ==
    /\ pc = "build_dag"
    /\ cells \in [DOMAIN DagCols -> LevelFormulas]
    /\ dag = <<>>
    /\ stack = <<>>
    /\ cache = <<>> /\ retval = 0 /\ todo = <<>>
    /\ max_depth = 0 /\ visited = {}
    /\ NoParse
    /\ NoMain

\* build_dag, lines 66-87, and level_cache = {} before the loop
BuildDag ==
    /\ pc = "build_dag"
    /\ \E refs \in [DOMAIN DagCols -> UNION {parse_structured_refs(f) : f \in LevelFormulas}] :
            /\ \A c \in DOMAIN DagCols : refs[c] \in parse_structured_refs(cells[c])
            /\ dag' = [c \in DOMAIN DagCols |-> FormulaDeps(refs[c])]
    /\ todo' = DagCols
    /\ pc' = "level_next"
    /\ UNCHANGED <<cells, max_depth, visited, stack, cache, retval>>
    /\ UNCHANGED parsevars
    /\ UNCHANGED mainvars

\* lines 195-196: for col in dag: level = get_level(col, dag, level_cache)
LevelNext ==
    /\ pc = "level_next"
    /\ IF todo = <<>>
       THEN pc' = "level_done" /\ UNCHANGED <<stack, todo>>
       ELSE /\ stack' = <<LevelFrame(Head(todo))>>
            /\ todo' = Tail(todo)
            /\ pc' = "get_level"
    /\ UNCHANGED <<cells, max_depth, visited, dag, cache, retval>>
    /\ UNCHANGED parsevars
    /\ UNCHANGED mainvars

\* lines 179-190: the body of get_level up to the first recursive call
LevelCall ==
    /\ pc = "get_level" /\ Top.i = 0
    /\ IF Len(stack) > RecursionLimit
       THEN pc' = "RecursionError" /\ UNCHANGED <<stack, cache, retval>>
       ELSE IF Top.col \in DOMAIN cache
       THEN /\ retval' = cache[Top.col]
            /\ stack' = Pop
            /\ pc' = "returned"
            /\ UNCHANGED cache
       ELSE IF DependsOn(Top.col) = <<>>
       THEN /\ cache' = Cached(Top.col, 0)
            /\ retval' = 0
            /\ stack' = Pop
            /\ pc' = "returned"
       ELSE /\ stack' = Append([stack EXCEPT ![Len(stack)].i = 1],
                               LevelFrame(DependsOn(Top.col)[1]))
            /\ UNCHANGED <<pc, cache, retval>>
    /\ UNCHANGED <<cells, max_depth, visited, dag, todo>>
    /\ UNCHANGED parsevars
    /\ UNCHANGED mainvars

\* a call has returned: to the generator of line 190, which goes on to the
\* next dependency or ends (lines 190-192), or to the loop of line 195
LevelReturn ==
    /\ pc = "returned"
    /\ IF stack = <<>>
       THEN pc' = "level_next" /\ UNCHANGED <<stack, cache, retval>>
       ELSE LET deps == DependsOn(Top.col)
                levels == Append(Top.levels, retval)
            IN  IF Top.i < Len(deps)
                THEN /\ stack' = Append([stack EXCEPT ![Len(stack)].i = Top.i + 1,
                                                      ![Len(stack)].levels = levels],
                                        LevelFrame(deps[Top.i + 1]))
                     /\ pc' = "get_level"
                     /\ UNCHANGED <<cache, retval>>
                ELSE LET max_dep_level == Max({levels[k] : k \in DOMAIN levels})
                     IN  /\ cache' = Cached(Top.col, max_dep_level + 1)
                         /\ retval' = max_dep_level + 1
                         /\ stack' = Pop
                         /\ UNCHANGED pc
    /\ UNCHANGED <<cells, max_depth, visited, dag, todo>>
    /\ UNCHANGED parsevars
    /\ UNCHANGED mainvars

NextLevel == BuildDag \/ LevelNext \/ LevelCall \/ LevelReturn

SpecLevel == InitLevel /\ [][NextLevel]_vars

\* ------------------------------------------------------------------------
\* Properties
\* ------------------------------------------------------------------------
Positive(q) == IsNum(q) /\ q.n > 0

\* plantings per bed as the specification defines it
PlantingsPerBed(r) ==
    IF Positive(r.spacing) /\ Positive(r.rows)
    THEN RMul(RMul(RDiv(Twelve, r.spacing), r.rows), r.bed_length)
    ELSE I(0)

\* s conforms to template t from its first to its last atom
RECURSIVE Conforms(_, _)
Conforms(t, s) ==
    IF t = <<>> THEN s = <<>>
    ELSE IF Head(t) = "#"
    THEN NumLen(s) > 0 /\ Conforms(Tail(t), Drop(s, NumLen(s)))
    ELSE s # <<>> /\ Head(s) = Head(t) /\ Conforms(Tail(t), Tail(s))

\* C2: a result is returned only when the entire normalized expression
\* conforms to a template; a known shape followed or preceded by any other
\* character, a trailing line break included, gives None.
C2_ExactStringMatch ==
    /\ (pc = "done" /\ Matched(conv)) =>
          \E i \in 1..Len(ConvTemplates) : Conforms(ConvTemplates[i].re, cf)
    /\ (pc = "done" /\ Matched(model)) =>
          \E i \in 1..Len(MigTemplates) : Conforms(MigTemplates[i].re, mf)

\* the templates whose shape is that of template j followed by /harvests
ConvInclusive(j) ==
    {i \in 1..Len(ConvTemplates) : ConvTemplates[i].re = ConvTemplates[j].re \o <<"/", h_>>}
MigInclusive(j) ==
    {i \in 1..Len(MigTemplates) : MigTemplates[i].re = MigTemplates[j].re \o <<"/", H>>}

EndsWith(s, tail) == Len(s) >= Len(tail) /\ Drop(s, Len(s) - Len(tail)) = tail

\* C3 as stated: whenever the matcher is about to try a template whose shape
\* also exists with a trailing /harvests, it has already tried that
\* division-inclusive template.
C3_InclusiveTriedFirst ==
    /\ (pc = "convert_match" /\ ConvInclusive(cidx) # {}) =>
          \E i \in ConvInclusive(cidx) : i < cidx
    /\ (pc = "migrate_match" /\ MigInclusive(midx) # {}) =>
          \E i \in MigInclusive(midx) : i < midx

\* C3 amended: the same for every shape except plantingsPerBed*a/b, whose
\* division-exclusive template is tried before plantingsPerBed*a/b/harvests;
\* no division-exclusive template matches an expression ending in /harvests.
C3_InclusiveTriedFirstExceptMultDiv ==
    /\ (pc = "convert_match" /\ ConvInclusive(cidx) # {}) =>
          /\ (ConvTemplates[cidx].re # <<ppb_, "*", "#", "/", "#">> =>
                \E i \in ConvInclusive(cidx) : i < cidx)
          /\ (ConvTemplates[cidx].re = <<ppb_, "*", "#", "/", "#">> =>
                \A i \in ConvInclusive(cidx) : cidx < i)
          /\ (re_match(ConvTemplates[cidx].re, cf).ok =>
                ~EndsWith(cf, <<"/", h_>>) /\ ~EndsWith(cf, <<"/", h_, "\n">>))
    /\ (pc = "migrate_match" /\ MigInclusive(midx) # {}) =>
          /\ (MigTemplates[midx].re # <<PPB, "*", "#", "/", "#">> =>
                \E i \in MigInclusive(midx) : i < midx)
          /\ (MigTemplates[midx].re = <<PPB, "*", "#", "/", "#">> =>
                \A i \in MigInclusive(midx) : midx < i)
          /\ (re_match(MigTemplates[midx].re, mf).ok =>
                ~EndsWith(mf, <<"/", H>>) /\ ~EndsWith(mf, <<"/", H, "\n">>))

\* C3 witness: the cursor is on plantingsPerBed*k, which matches, after
\* plantingsPerBed*k/harvests was tried and did not.
C3_Witness ==
    /\ pc = "convert_match"
    /\ ConvInclusive(cidx) # {}
    /\ ConvTemplates[cidx].tag = "PPB_MULT"
    /\ ConvTemplates[cidx].re = <<ppb_, "*", "#">>
    /\ re_match(ConvTemplates[cidx].re, cf).ok

\* the row of the specification's examples
ExampleRow(r) ==
    /\ r.spacing = I(6) /\ r.rows = I(4) /\ r.bed_length = I(50)
    /\ r.harvests = I(5)

\* the texts  =Plantings Per Bed*k  (plain and as a structured reference)
PpbMultRaws(k) ==
    {<<"=", PPB, "*">> \o k, <<"=">> \o Structured(<<PPB, "*">> \o k)}
PpbMultDivHRaws(k) ==
    {<<"=", PPB, "*">> \o k \o <<"/", H>>,
     <<"=">> \o Structured(<<PPB, "*">> \o k \o <<"/", H>>)}

\* the same texts with the column spelt PlantingsPerBed
SpeltPpbMultRaws(k) == {<<"=", "PlantingsPerBed", "*">> \o k}
SpeltPpbMultDivHRaws(k) == {<<"=", "PlantingsPerBed", "*">> \o k \o <<"/", H>>}

DefaultPerPlant(k) ==
    /\ model = YieldModel("per-plant", float(k), TRUE, "PPB_MULT", None)
    /\ conv.pattern = "PPB_MULT" /\ ~conv.is_total
    /\ LET tot == RMul(RMul(PlantingsPerBed(row), float(k)), row.harvests)
       IN  /\ mtotal = tot
           /\ ctotal = tot
           /\ (ExampleRow(row) /\ k = Lit3) => tot = I(6000)

\* C4 as stated: for a formula of the shape plantingsPerBed*k, the text
\* "=PlantingsPerBed*3" included, the model is {PPB_MULT, per-plant, rate k,
\* harvestMultiplies true} and the total is plantingsPerBed * k * harvests
\* (6000 for spacing 6, rows 4, bed length 50, harvests 5, k 3).
C4_DefaultPerPlantAsStated ==
    \A k \in Lits :
        (pc = "done" /\ raw \in PpbMultRaws(k) \cup SpeltPpbMultRaws(k)) =>
            DefaultPerPlant(k)

\* C4 amended: the same for formulas that name the column by its display
\* name Plantings Per Bed, plain or as a structured reference; the text
\* "=PlantingsPerBed*3" matches no template in either script.
C4_DefaultPerPlant ==
    \A k \in Lits :
        /\ (pc = "done" /\ raw \in PpbMultRaws(k)) => DefaultPerPlant(k)
        /\ (pc = "done" /\ raw \in SpeltPpbMultRaws(k)) =>
              model = NoModel /\ conv = NoConv

\* C4 witness: =Plantings Per Bed*3 evaluated on the example row gives 6000
C4_Witness ==
    /\ pc = "done"
    /\ raw = <<"=", PPB, "*", "3">>
    /\ ExampleRow(row)
    /\ model.pattern = "PPB_MULT"
    /\ mtotal = I(6000) /\ ctotal = I(6000)

DivHarvest(k) ==
    /\ model = YieldModel("per-plant", float(k), FALSE, "PPB_MULT_DIV_H", None)
    /\ conv.pattern = "PPB_MULT_DIV_H" /\ conv.is_total
    /\ LET tot == RMul(PlantingsPerBed(row), float(k))
       IN  /\ mtotal = tot
           /\ ctotal = tot
           /\ (ExampleRow(row) /\ k = Lit3) => tot = I(1200)

\* C5 as stated: for a formula of the shape plantingsPerBed*k/harvests, the
\* text "=PlantingsPerBed*3/Harvests" included, the model is {PPB_MULT_DIV_H,
\* rate k, harvestMultiplies false} and the total is plantingsPerBed * k
\* (1200 on the example row), harvests not applied again.
C5_DivHarvestAsStated ==
    \A k \in Lits :
        (pc = "done" /\ raw \in PpbMultDivHRaws(k) \cup SpeltPpbMultDivHRaws(k)) =>
            DivHarvest(k)

\* C5 amended: the same for formulas that name the column by its display
\* name Plantings Per Bed, plain or as a structured reference; the text
\* "=PlantingsPerBed*3/Harvests" matches no template in either script.
C5_DivHarvest ==
    \A k \in Lits :
        /\ (pc = "done" /\ raw \in PpbMultDivHRaws(k)) => DivHarvest(k)
        /\ (pc = "done" /\ raw \in SpeltPpbMultDivHRaws(k)) =>
              model = NoModel /\ conv = NoConv

\* C5 witness: the structured-reference spelling of Plantings Per Bed*3/Harvests
\* evaluated on the example row gives 1200
C5_Witness ==
    /\ pc = "done"
    /\ raw = <<"=">> \o Structured(<<PPB, "*", "3", "/", H>>)
    /\ ExampleRow(row)
    /\ ~model.harvest_multiplies
    /\ mtotal = I(1200) /\ ctotal = I(1200)

LettuceRaw(fixed, k) ==
    <<"=", "(">> \o fixed \o <<"+", "(", H, "-", "1", ")", "*">> \o k
        \o <<"*", PPB, ")", "/", H>>

\* C6: for every formula (fixed+(harvests-1)*k*plantingsPerBed)/harvests the
\* model is {LETTUCE_COMPLEX, rate k, extra fixed, harvestMultiplies false}
\* and, for every fixed >= 0, k and harvests > 0, the total is
\* extra + (harvests-1)*rate*plantingsPerBed, with the extracted fixed value
\* as extra whatever its value.
C6_LettuceComplex ==
    \A fixed \in Lits, k \in Lits :
        (pc = "done" /\ raw = LettuceRaw(fixed, k)) =>
            /\ model = YieldModel("per-plant", float(k), FALSE, "LETTUCE_COMPLEX",
                                  float(fixed))
            /\ Positive(row.harvests) =>
                  mtotal = RAdd(float(fixed),
                                RMul(RMul(RSub(row.harvests, One), float(k)),
                                     PlantingsPerBed(row)))

\* C7: calculate_ppb returns (12 / spacing) * rows * bedLength when spacing
\* and rows are positive and 0 otherwise (a number, never negative for a
\* non-positive spacing or rows), and the two scripts' copies agree.
C7_CalculatePpb ==
    pc = "ppb_done" =>
        /\ mppb = PlantingsPerBed(row)
        /\ cppb = mppb
        /\ (~Positive(row.spacing) \/ ~Positive(row.rows)) => mppb = I(0) /\ cppb = I(0)

\* C7 witness: a negative spacing with positive rows has given 0
C7_Witness ==
    /\ pc = "ppb_done"
    /\ IsNum(row.spacing) /\ row.spacing.n < 0
    /\ Positive(row.rows) /\ Positive(row.bed_length)
    /\ mppb = I(0) /\ cppb = I(0)

DivHPatterns == {"PPB_MULT_DIV_H", "PPB_DIV_DIV_H", "AREA_DIV_H", "BEDLENGTH_DIV_H"}

\* the rows that differ from r in harvests only
OtherHarvests(r) ==
    {r2 \in Rows : [r2 EXCEPT !.harvests = r.harvests] = r}

YieldOn(m, r) ==
    calculate_yield(m, r.spacing, r.rows, r.bed_length, r.harvests, r.dbh,
                    r.seeds_per_bed, r.safety_factor)

\* C8: calculate_yield returns base_yield * harvests when
\* model.harvest_multiplies is true and exactly base_yield when it is false;
\* for every *_DIV_H model the total is the same for every harvests input.
C8_HarvestMultiplication ==
    (pc \in {"evaluate_formula", "done"} /\ Matched(model)) =>
        LET base == base_yield(model, PlantingsPerBed(row), row.bed_length,
                               row.harvests, row.dbh, row.seeds_per_bed,
                               row.safety_factor)
        IN  /\ model.harvest_multiplies => mtotal = RMul(base, row.harvests)
            /\ ~model.harvest_multiplies => mtotal = base
            /\ model.pattern \in DivHPatterns =>
                  /\ ~model.harvest_multiplies
                  /\ \A r2 \in OtherHarvests(row) : YieldOn(model, r2) = mtotal

\* C8 witness: an AREA_DIV_H model evaluated with one harvest, with rows of
\* other harvest counts to compare with
C8_Witness ==
    /\ pc = "done"
    /\ model.pattern = "AREA_DIV_H"
    /\ row.harvests = I(1)
    /\ Cardinality(OtherHarvests(row)) > 1
    /\ Positive(mtotal)

\* C9: PPB_WEEKLY_RATE gives plantingsPerBed * rate * (daysBetweenHarvest / 7),
\* times harvests, for every daysBetweenHarvest, 0 included.
C9_WeeklyRate ==
    /\ (pc = "done" /\ model.pattern = "PPB_WEEKLY_RATE") =>
          mtotal = RMul(RMul(RMul(PlantingsPerBed(row), model.rate),
                             RDiv(row.dbh, Seven)), row.harvests)
    /\ (pc = "done" /\ conv.pattern = "PPB_WEEKLY_RATE" /\ Matched(model)) =>
          ctotal = RMul(RMul(RMul(PlantingsPerBed(row), model.rate),
                             RDiv(row.dbh, Seven)), row.harvests)

SeedsRaw(k) == <<"=", "1", "/">> \o k \o <<"*", SPB, "/", SF>>

\* C10: for a formula 1/k*seeds/safetyFactor and every row safety factor > 0
\* the total is seeds * (1/k) / safetyFactor * harvests, from calculate_yield
\* and from the emitted yieldFormula alike.
C10_SeedsBasedUsesRowSafetyFactor ==
    \A k \in Lits :
        (pc = "done" /\ raw = SeedsRaw(k) /\ float(k).n # 0
                     /\ Positive(row.safety_factor)) =>
            LET tot == RMul(RDiv(RMul(row.seeds_per_bed, RDiv(One, float(k))),
                                   row.safety_factor), row.harvests)
            IN  mtotal = tot /\ ctotal = tot

\* C11: calculate_yield fails with a division-by-zero error, and returns no
\* number, when safety_factor is zero under SEEDS_BASED and when harvests is
\* zero under LETTUCE_COMPLEX.
C11_DivisionByZeroFails ==
    (pc = "done" /\ Matched(model)) =>
        /\ (model.pattern = "SEEDS_BASED" /\ row.safety_factor = I(0)) => mtotal = Raised
        /\ (model.pattern = "LETTUCE_COMPLEX" /\ row.harvests = I(0)) => mtotal = Raised

\* C16: parse_and_convert and parse_uph_formula return None without trying a
\* template whenever the raw input is empty or does not begin with "=".
C16_NormalizationSentinel ==
    (raw = <<>> \/ Head(raw) # "=") =>
        /\ conv = NoConv /\ cidx = 0 /\ cf = <<>>
        /\ model = NoModel /\ midx = 0 /\ mf = <<>>

\* a template text without its "=" has gone through both parsers
C16_Witness ==
    /\ pc = "done"
    /\ raw = <<PPB, "*", "3">>
    /\ conv = NoConv /\ model = NoModel

\* every column name replaced at once, the longest name that fits first
RECURSIVE SubstituteNames(_)
SubstituteNames(s) ==
    IF s = <<>> THEN <<>>
    ELSE IF IsPrefix(SBL, s) THEN c100 \o SubstituteNames(Drop(s, Len(SBL)))
    ELSE LET a == Head(s)
             b == CASE a = PPB -> ppb_
                    [] a = DBH -> dbh_
                    [] a = BL -> bf_
                    [] a = H -> h_
                    [] a = SPB -> seeds_
                    [] a = SF -> sf_
                    [] OTHER -> a
         IN  <<b>> \o SubstituteNames(Tail(s))

\* C17: StandardBedLength is substituted before BedLength, so every
\* occurrence of the longer name becomes its own token (100) and the
\* normalised text is the one a longest-name-first substitution gives.
C17_LongestNameFirst ==
    cidx > 0 => cf = SubstituteNames(mig_normalize(raw))

C17_Witness ==
    /\ pc = "done"
    /\ raw = <<"=", "3", "*", BL, "/">> \o SBL
    /\ cf = <<"3", "*", bf_, "/">> \o c100
    /\ conv.pattern = "AREA"

\* C18: normalising a normalised formula changes nothing.
C18_NormalizeIdempotent ==
    cidx > 0 => conv_normalize(cf) = cf

\* a formula in canonical variable form, and one in structured-reference
\* spelling with two column references
C18_Witness ==
    /\ pc = "done"
    /\ \/ raw = <<"=", ppb_, "*", "3", "/", h_>> /\ cf = Tail(raw)
       \/ /\ raw = <<"=">> \o Structured(<<PPB, "*", "3", "/", H>>)
          /\ cf = <<ppb_, "*", "3", "/", h_>>

\* C19: every model parse_uph_formula returns has a basis of per-plant or
\* per-100ft, a numeric rate, a boolean harvest_multiplies and a pattern tag;
\* extra is set only for LETTUCE_COMPLEX; and every return statement with
\* the same tag has the same basis and the same harvest_multiplies.
C19_YieldModelInvariant ==
    Matched(model) =>
        /\ model.basis \in {"per-plant", "per-100ft"}
        /\ IsNum(model.rate)
        /\ model.harvest_multiplies \in BOOLEAN
        /\ model.pattern # ""
        /\ (model.extra # None => model.pattern = "LETTUCE_COMPLEX")
        /\ \A i \in 1..Len(MigTemplates) :
              MigTemplates[i].tag = model.pattern =>
                  /\ MigTemplates[i].basis = model.basis
                  /\ MigTemplates[i].hm = model.harvest_multiplies

C19_Witness ==
    /\ pc = "done"
    /\ model.pattern = "PPB_MULT_DIV_H"
    /\ mf = <<PPB, "/", H, "*", "3">>
    /\ ~model.harvest_multiplies

\* ------------------------------------------------------------------------
\* Properties of main
\* ------------------------------------------------------------------------
\* the row the loop has just read has a Crop, so raw, row and excel_total
\* are its cells
CurCrop == Len(crops) > 0 /\ crops[Len(crops)]

MigrateRun == "matched" \in DOMAIN results

\* the bucket of the rows that passed: 'matched' in migrate, 'converted' in convert
GoodBucket == IF MigrateRun THEN "matched" ELSE "converted"

\* the number of records of bucket b for sheet row r
RecordsIn(b, r) == Cardinality({i \in 1..Len(results[b]) : results[b][i].row = r})

BucketsOf(r) == {b \in DOMAIN results : RecordsIn(b, r) > 0}

\* no template of the running script fits the normalised text
Unrecognised(text) ==
    IF MigrateRun
    THEN \A i \in 1..Len(MigTemplates) : ~re_match(MigTemplates[i].re, mig_normalize(text)).ok
    ELSE \A i \in 1..Len(ConvTemplates) : ~re_match(ConvTemplates[i].re, conv_normalize(text)).ok

NotAFormula(text) == text = <<>> \/ ~startswith(text, <<"=">>)

Validated ==
    /\ pc # "aborted" /\ CurCrop
    /\ BucketsOf(row_no) \subseteq {GoodBucket, "errors"}
    /\ Validates(row)
    /\ IsNum(IF MigrateRun THEN mtotal ELSE ctotal)

Computed == IF MigrateRun THEN mtotal ELSE ctotal

\* C13: a validated row with a numeric, non-zero expected total is in the
\* errors bucket exactly when |computed - expected| / expected * 100 > 1.
C13_ToleranceBoundary ==
    (Validated /\ IsNum(excel_total) /\ excel_total.n # 0) =>
        LET errorPct == RMul(RDiv(RAbs(RSub(Computed, excel_total)), excel_total), Hundred)
        IN  BucketsOf(row_no) = IF RGt(errorPct, One) THEN {"errors"} ELSE {GoodBucket}

\* C14: with an expected total of 0 a validated row is in the good bucket
\* when the computed total is 0 and in the errors bucket otherwise.
C14_ZeroExpected ==
    (Validated /\ excel_total = I(0)) =>
        BucketsOf(row_no) = IF Computed = I(0) THEN {GoodBucket} ELSE {"errors"}

\* C15: for a formula that fits no template the parser returns None and does
\* not raise, and the row's one record, in the unmatched bucket, carries the
\* cell text as it was read.
C15_UnmatchedPassthrough ==
    (CurCrop /\ raw # <<>> /\ (NotAFormula(raw) \/ Unrecognised(raw))) =>
        /\ pc # "aborted"
        /\ IF MigrateRun THEN model = NoModel ELSE conv = NoConv
        /\ RecordsIn("unmatched", row_no) = 1
        /\ \A i \in 1..Len(results.unmatched) :
              results.unmatched[i].row = row_no =>
                  IF MigrateRun THEN results.unmatched[i].formula = raw
                  ELSE results.unmatched[i].excel_formula = raw

\* a nested conditional, whose normalised text differs from the cell text
C15_Witness ==
    /\ CurCrop /\ MigrateRun
    /\ raw = <<"=", "IF", "(", H, ">", "1", ",", PPB, ",", "0", ")">>
    /\ mig_normalize(raw) # raw
    /\ RecordsIn("unmatched", row_no) = 1

C21_NoFailureAborts == pc # "aborted"

\* C22: a row is in the matched (converted) bucket only if its total was
\* computed from the matched template and compared with a cached total it
\* is within 1% of.
C22_MatchedMeansValidated ==
    (pc # "aborted" /\ CurCrop /\ BucketsOf(row_no) = {GoodBucket}) =>
        /\ Validates(row)
        /\ IsNum(Computed)
        /\ IsNum(excel_total)
        /\ IF excel_total.n = 0 THEN Computed = I(0)
           ELSE ~RGt(RMul(RDiv(RAbs(RSub(Computed, excel_total)), excel_total), Hundred),
                     One)

\* ------------------------------------------------------------------------
\* Properties of the two recognisers
\* ------------------------------------------------------------------------
\* '/harvests' in f: the normalised text divides by harvests somewhere
HasDivHarvests(text) ==
    LET f == conv_normalize(text)
    IN  \E i \in 1..(Len(f) - 1) : f[i] = "/" /\ f[i + 1] = h_

\* the yieldFormula is a product whose last factor is harvests
TimesHarvests(formula) == EndsWith(formula, <<Sym("*"), Sym(h_)>>)

CellsRead ==
    SheetRow(TRUE, identifier, raw, row.spacing, row.rows, row.harvests, row.dbh,
             row.seeds_per_bed, row.safety_factor, excel_total)

\* what main records for a sheet that has the cells c in row r and nothing else
Alone(c, r) ==
    IF MigrateRun
    THEN LET ym == parse_uph_formula(c.uph_formula)
             calc == mig_calculated(c, ym)
         IN  mig_main_row(MigResults, mig_bucket(c, ym, calc), r, c, ym, calc)
    ELSE LET conversion == parse_and_convert(c.uph_formula)
             our_total == conv_our_total(c, conversion)
         IN  conv_main_row(ConvResults, conv_bucket(c, conversion, our_total), r, c,
                           conversion, our_total)

ConvHits == {i \in 1..Len(ConvTemplates) : re_match(ConvTemplates[i].re, cf).ok}
MigHits == {i \in 1..Len(MigTemplates) : re_match(MigTemplates[i].re, mf).ok}

\* C25: when both parsers have returned, all templates that fit the
\* normalised text give the same result, and that is the result returned.
C25_TemplatesExclusive ==
    pc = "row" =>
        /\ \A i, j \in ConvHits : ConvTry(i, cf) = ConvTry(j, cf)
        /\ \A i, j \in MigHits : MigTry(i, mf) = MigTry(j, mf)
        /\ \A i \in ConvHits : conv = ConvTry(i, cf)
        /\ \A i \in MigHits : model = MigTry(i, mf)

\* X*bedFeet/100/harvests, which two templates of convert's cascade fit
C25_Witness ==
    /\ pc = "row"
    /\ Cardinality(ConvHits) = 2 /\ Cardinality(MigHits) = 1
    /\ conv.pattern = "AREA_DIV_H"

\* C26: a formula that both parsers match gets the same pattern tag from
\* both, and convert's is_total is the negation of migrate's
\* harvest_multiplies.
C26_RecognizersAgree ==
    (pc = "row" /\ Matched(conv) /\ Matched(model)) =>
        /\ conv.pattern = model.pattern
        /\ conv.is_total = ~model.harvest_multiplies

\* ------------------------------------------------------------------------
\* Properties of trace_dependencies
\* ------------------------------------------------------------------------
\* the columns a list of references names in the traced row, in order
RECURSIVE SameRowCols(_)
SameRowCols(refs) ==
    IF refs = <<>> THEN <<>>
    ELSE (IF Head(refs).row = TraceRow THEN <<Head(refs).col>> ELSE <<>>)
            \o SameRowCols(Tail(refs))

Edges(c) == SameRowCols(cells[c])

\* the columns a chain of at most k same-row references leads to from start_col
RECURSIVE Within(_)
Within(k) ==
    IF k = 0 THEN {StartCol}
    ELSE LET near == Within(k - 1)
         IN  near \cup UNION {{Edges(c)[i] : i \in 1..Len(Edges(c))} : c \in near}

\* C27: the dag returned holds all same-row references of every column
\* that a chain of at most max_depth references reaches from start_col.
C27_TraceComplete ==
    pc = "trace_done" => \A c \in Within(max_depth) : dag[c] = Edges(c)

\* C28: trace_dependencies returns, and no column has its references
\* appended to the dag more than once.
C28_TraceTerminates ==
    /\ <>(pc = "trace_done")
    /\ [](\A c \in Cols : IsPrefix(dag[c], Edges(c)))

\* two columns that refer to each other, both expanded
C28_Witness ==
    /\ pc = "trace_done"
    /\ Edges(StartCol) = <<2>> /\ Edges(2) = <<StartCol>>
    /\ dag[StartCol] = <<2>> /\ dag[2] = <<StartCol>>
    /\ visited = {StartCol, 2}

\* ------------------------------------------------------------------------
\* Properties of get_level
\* ------------------------------------------------------------------------
\* C29: get_level does not run out of stack, and the level it records for a
\* column is 0 when the column has no dependencies and 1 + the largest
\* level of its dependencies otherwise.
C29_GetLevelTerminates ==
    /\ pc # "RecursionError"
    /\ \A c \in DOMAIN cache :
          cache[c] = IF DependsOn(c) = <<>> THEN 0
                     ELSE 1 + Max({cache[DependsOn(c)[k]] : k \in DOMAIN DependsOn(c)})

\* ------------------------------------------------------------------------
\* Properties of the shim file
\* ------------------------------------------------------------------------
\* the items of the converted bucket that have an identifier
WithIdentifier ==
    {i \in DOMAIN results.converted : results.converted[i].identifier # <<>>}

\* C30 as stated: after convert's main has finished, every converted row
\* with a non-empty identifier has its own yieldFormula under its identifier
\* in shim_data, and shim_data has as many entries as there are such rows.
C30_ShimComplete ==
    pc = "convert_done" =>
        /\ \A i \in WithIdentifier :
              /\ results.converted[i].identifier \in DOMAIN shim_data
              /\ shim_data[results.converted[i].identifier]
                    = results.converted[i].yieldFormula
        /\ Cardinality(DOMAIN shim_data) = Cardinality(WithIdentifier)

\* C30: after convert's main has finished, shim_data has one entry for each
\* distinct non-empty identifier of the converted bucket, and the entry is
\* the yieldFormula of the last converted row with that identifier.
C30_ShimLastWins ==
    pc = "convert_done" =>
        /\ DOMAIN shim_data = {results.converted[i].identifier : i \in WithIdentifier}
        /\ \A id \in DOMAIN shim_data :
              shim_data[id]
                 = results.converted[Max({i \in WithIdentifier :
                                            results.converted[i].identifier = id})].yieldFormula

\* two converted rows with one identifier and different formulas
C30_Witness ==
    /\ pc = "convert_done"
    /\ \E i, j \in WithIdentifier :
          /\ i < j
          /\ results.converted[i].identifier = results.converted[j].identifier
          /\ results.converted[i].yieldFormula # results.converted[j].yieldFormula
          /\ shim_data[results.converted[j].identifier] = results.converted[j].yieldFormula

====
